---------------------------- MODULE Spec2Model ----------------------------
(***************************************************************************)
(* Word-boundary reconstruction engine of scripts/clean_tb2_syllable_      *)
(* spacing.py (and the DP of scripts/clean_bible_import_text.py).          *)
(*                                                                         *)
(* A text is a sequence of one-character strings.  Stream offsets and      *)
(* token positions that the code counts from 0 are counted from 0 here     *)
(* too; only the indexing of a TLA+ sequence adds 1.  Floating point       *)
(* scores are fixed-point integers in thousandths, ratios are exact        *)
(* fractions <<numerator, denominator>>.                                   *)
(*                                                                         *)
(* The pure functions are exercised by a call harness: `call` holds the    *)
(* function name and its arguments, `ret` the returned value, and `pc` is  *)
(* "call" before and "return" after the function has run.                  *)
(***************************************************************************)
EXTENDS Integers, Sequences, FiniteSets, TLC

VARIABLES pc, call, ret

vars == <<pc, call, ret>>

None == -1

\* the value of ret before the call has returned
NoValue == <<>>

\* value bound to the name that Body takes, as an assignment to a local does:
\* the value is computed first, then the body runs with it
With(value, Body(_)) == CASE value = value -> Body(value)

-----------------------------------------------------------------------------
(* Characters                                                              *)

LowerSeq == <<"a","b","c","d","e","f","g","h","i","j","k","l","m",
              "n","o","p","q","r","s","t","u","v","w","x","y","z">>
UpperSeq == <<"A","B","C","D","E","F","G","H","I","J","K","L","M",
              "N","O","P","Q","R","S","T","U","V","W","X","Y","Z">>

LowerLetters == {LowerSeq[i] : i \in 1..Len(LowerSeq)}
UpperLetters == {UpperSeq[i] : i \in 1..Len(UpperSeq)}

\* LETTER_CLASS, restricted to the unaccented letters
IsLetter(c) == c \in LowerLetters \cup UpperLetters

Digits == {"0","1","2","3","4","5","6","7","8","9"}
IsDigit(c) == c \in Digits

\* \s and str.isspace() on one character
IsSpaceChar(c) == c \in {" ", "\t", "\n", "\r"}

\* str.lower() on one character
LowerChar(c) ==
    IF c \in UpperLetters
    THEN LowerSeq[CHOOSE i \in 1..Len(UpperSeq) : UpperSeq[i] = c]
    ELSE c

\* str.lower()
Lowered(s) == [i \in 1..Len(s) |-> LowerChar(s[i])]

\* str.isspace(): non-empty and all whitespace
IsSpace(s) == Len(s) > 0 /\ \A i \in 1..Len(s) : IsSpaceChar(s[i])

\* "".join(list)
RECURSIVE Join(_)
Join(ss) == IF ss = <<>> THEN <<>> ELSE Head(ss) \o Join(Tail(ss))

\* sep.join(list)
RECURSIVE JoinWith(_, _)
JoinWith(sep, ss) ==
    IF ss = <<>> THEN <<>>
    ELSE IF Len(ss) = 1 THEN ss[1]
    ELSE ss[1] \o sep \o JoinWith(sep, Tail(ss))

\* s[lo:hi] with 0-based offsets; an end past the text is the end of the text
Slice(s, lo, hi) ==
    LET end == IF hi > Len(s) THEN Len(s) ELSE hi
    IN  IF end <= lo THEN <<>> ELSE SubSeq(s, lo + 1, end)

\* all sequences over S of length at most n
SeqsUpTo(S, n) == UNION {[1..k -> S] : k \in 0..n}

\* str.strip(): leading and trailing whitespace removed
RECURSIVE LStrip(_)
LStrip(s) == IF s # <<>> /\ IsSpaceChar(s[1]) THEN LStrip(Tail(s)) ELSE s
RECURSIVE RStrip(_)
RStrip(s) ==
    IF s # <<>> /\ IsSpaceChar(s[Len(s)]) THEN RStrip(SubSeq(s, 1, Len(s) - 1)) ELSE s
Strip(s) == RStrip(LStrip(s))

\* re.sub(rf"[^{LETTER_CLASS}]+", "", text).lower()
normalize_letters(text) == Lowered(SelectSeq(text, IsLetter))

\* re.sub(rf"[^{LETTER_CLASS}]", "", word).lower()
word_norm(word) == Lowered(SelectSeq(word, IsLetter))

-----------------------------------------------------------------------------
(* Tokens                                                                  *)

\* a character of [LETTER_CLASS-]
IsWordChar(c) == IsLetter(c) \/ c = "-"

\* length of the maximal run at the head of s whose characters are all
\* word characters (w = TRUE) or all other characters (w = FALSE)
RECURSIVE RunLen(_, _)
RunLen(s, w) ==
    IF s = <<>> \/ IsWordChar(s[1]) # w THEN 0 ELSE 1 + RunLen(Tail(s), w)

\* TOKEN_RE.findall(text): maximal runs of word characters and of others
RECURSIVE split_tokens(_)
split_tokens(text) ==
    IF text = <<>> THEN <<>>
    ELSE LET n == RunLen(text, IsWordChar(text[1]))
         IN  <<SubSeq(text, 1, n)>> \o split_tokens(SubSeq(text, n + 1, Len(text)))

\* WORD_TOKEN_RE.fullmatch(token)
is_word_token(token) ==
    Len(token) > 0 /\ \A i \in 1..Len(token) : IsWordChar(token[i])

\* positions (from 1) of the word tokens among tokens[i..], in order
RECURSIVE WordIndexesFrom(_, _)
WordIndexesFrom(tokens, i) ==
    IF i > Len(tokens) THEN <<>>
    ELSE (IF is_word_token(tokens[i]) THEN <<i>> ELSE <<>>)
         \o WordIndexesFrom(tokens, i + 1)

\* boundaries of build_stream: the stream length after each word
RECURSIVE BoundariesOf(_, _)
BoundariesOf(words, sofar) ==
    IF words = <<>> THEN <<>>
    ELSE LET n == sofar + Len(word_norm(words[1]))
         IN  <<n>> \o BoundariesOf(Tail(words), n)

\* build_stream with boundary_set = set(boundaries), the last word included
build_stream_AllEnds(text) ==
    With(split_tokens(text), LAMBDA tokens :
    With(WordIndexesFrom(tokens, 1), LAMBDA word_indexes :
    With([i \in 1..Len(word_indexes) |-> tokens[word_indexes[i]]], LAMBDA words :
    With(BoundariesOf(words, 0), LAMBDA boundaries :
        [tokens |-> tokens,
         word_indexes |-> word_indexes,
         words |-> words,
         boundaries |-> boundaries,
         stream |-> Join([i \in 1..Len(words) |-> word_norm(words[i])]),
         boundary_set |-> {boundaries[i] : i \in 1..Len(boundaries)}]))))

\* the tokens, the words, their ends in the letter stream and the boundary set
build_stream(text) ==
    With(split_tokens(text), LAMBDA tokens :
    With(WordIndexesFrom(tokens, 1), LAMBDA word_indexes :
    With([i \in 1..Len(word_indexes) |-> tokens[word_indexes[i]]], LAMBDA words :
    With(BoundariesOf(words, 0), LAMBDA boundaries :
        [tokens |-> tokens,
         word_indexes |-> word_indexes,
         words |-> words,
         boundaries |-> boundaries,
         stream |-> Join([i \in 1..Len(words) |-> word_norm(words[i])]),
         boundary_set |-> {boundaries[i] : i \in 1..(Len(boundaries) - 1)}]))))

-----------------------------------------------------------------------------
(* difflib.SequenceMatcher(a, b, autojunk=False): no element is junk       *)

\* length of the common run of a and b starting at offsets i and j, within
\* a[i:ahi] and b[j:bhi]
RECURSIVE MatchLen(_, _, _, _, _, _)
MatchLen(a, b, i, ahi, j, bhi) ==
    IF i < ahi /\ j < bhi /\ a[i + 1] = b[j + 1]
    THEN 1 + MatchLen(a, b, i + 1, ahi, j + 1, bhi)
    ELSE 0

\* SequenceMatcher.find_longest_match(alo, ahi, blo, bhi): the longest block
\* a[i:i+k] = b[j:j+k] inside the two ranges; of the longest, the one that
\* starts earliest in a, and of those the one that starts earliest in b;
\* <<alo, blo, 0>> when nothing matches
find_longest_match(a, b, alo, ahi, blo, bhi) ==
    With({<<i, j>> : i \in alo..(ahi - 1), j \in blo..(bhi - 1)}, LAMBDA cand :
    With([p \in cand |-> MatchLen(a, b, p[1], ahi, p[2], bhi)], LAMBDA len :
    With(IF cand = {} THEN 0
         ELSE CHOOSE k \in {len[p] : p \in cand} : \A p \in cand : len[p] <= k,
         LAMBDA best :
        IF best = 0 THEN <<alo, blo, 0>>
        ELSE With({p \in cand : len[p] = best}, LAMBDA at :
             With(CHOOSE x \in {p[1] : p \in at} : \A p \in at : x <= p[1], LAMBDA i :
             With(CHOOSE y \in {p[2] : p \in {q \in at : q[1] = i}} :
                      \A p \in {q \in at : q[1] = i} : y <= p[2], LAMBDA j :
                 <<i, j, best>>))))))

\* SequenceMatcher.get_matching_blocks(), without the closing sentinel: the
\* longest match of the two ranges, then the same to its left and right
RECURSIVE MatchingBlocks(_, _, _, _, _, _)
MatchingBlocks(a, b, alo, ahi, blo, bhi) ==
    LET m == find_longest_match(a, b, alo, ahi, blo, bhi)
        i == m[1]
        j == m[2]
        k == m[3]
    IN  IF k = 0 THEN {}
        ELSE {m}
             \cup (IF alo < i /\ blo < j
                   THEN MatchingBlocks(a, b, alo, i, blo, j) ELSE {})
             \cup (IF i + k < ahi /\ j + k < bhi
                   THEN MatchingBlocks(a, b, i + k, ahi, j + k, bhi) ELSE {})

get_matching_blocks(a, b) == MatchingBlocks(a, b, 0, Len(a), 0, Len(b))

RECURSIVE SumSizes(_)
SumSizes(blocks) ==
    IF blocks = {} THEN 0
    ELSE LET m == CHOOSE x \in blocks : TRUE
         IN  m[3] + SumSizes(blocks \ {m})

\* matches / (len(a) + len(b)): the ratio without its factor 2
sequence_ratio_Unscaled(a, b) ==
    IF a = <<>> \/ b = <<>> THEN <<0, 1>>
    ELSE <<SumSizes(get_matching_blocks(a, b)), Len(a) + Len(b)>>

\* sequence_ratio: 0 when either is empty, else SequenceMatcher.ratio()
\* = 2.0 * matches / (len(a) + len(b)), as the fraction <<num, den>>
sequence_ratio(a, b) ==
    IF a = <<>> \/ b = <<>> THEN <<0, 1>>
    ELSE <<2 * SumSizes(get_matching_blocks(a, b)), Len(a) + Len(b)>>

\* comparisons of two fractions with positive denominators
RatioGeq(x, y) == x[1] * y[2] >= y[1] * x[2]
RatioGt(x, y) == x[1] * y[2] > y[1] * x[2]
RatioLt(x, y) == x[1] * y[2] < y[1] * x[2]

-----------------------------------------------------------------------------
(* Reference selector                                                      *)

\* RowRef(verse, text, normalized); NoRow is Python's None for a RowRef
RowRef(verse, text) ==
    [verse |-> verse, text |-> text, normalized |-> normalize_letters(text)]

NoRow == [verse |-> None, text |-> <<>>, normalized |-> <<>>]

\* dict.get(key): ref_rows is a function whose domain is the verses present
RowGet(ref_rows, verse) ==
    IF verse \in DOMAIN ref_rows THEN ref_rows[verse] ELSE NoRow

Max(x, y) == IF x >= y THEN x ELSE y
Min(x, y) == IF x <= y THEN x ELSE y

\* the direct test with > in place of >=
DirectTrusted_Strict(best_ratio, min_direct_ratio, direct_ref) ==
    RatioGt(best_ratio, min_direct_ratio) /\ direct_ref # NoRow

\* best_ratio >= min_direct_ratio and direct_ref is not None
DirectTrusted(best_ratio, min_direct_ratio, direct_ref) ==
    RatioGeq(best_ratio, min_direct_ratio) /\ direct_ref # NoRow

\* the upper end of the scan, one verse short
ScanHigh_Short(verse, neighbor_window) == verse + neighbor_window - 1

\* the lower end of the scan without the clamp at verse 1
ScanLow_Unclamped(verse, neighbor_window) == verse - neighbor_window

\* low and high of the neighbour scan
ScanLow(verse, neighbor_window) == Max(1, verse - neighbor_window)
ScanHigh(verse, neighbor_window) == verse + neighbor_window

\* the neighbour scan with ratio >= best_ratio in place of ratio > best_ratio
RECURSIVE ScanNeighbors_AtLeast(_, _, _, _, _, _)
ScanNeighbors_AtLeast(tb2_norm, ref_rows, verse, candidate_verse, high, best) ==
    IF candidate_verse > high THEN best
    ELSE LET candidate == RowGet(ref_rows, candidate_verse)
             ratio == sequence_ratio(tb2_norm, candidate.normalized)
             next ==
                 IF candidate_verse = verse \/ candidate = NoRow THEN best
                 ELSE IF RatioGeq(ratio, best.ratio)
                 THEN [ref |-> candidate, ratio |-> ratio, mode |-> "neighbor"]
                 ELSE best
         IN  ScanNeighbors_AtLeast(tb2_norm, ref_rows, verse, candidate_verse + 1, high, next)

\* the for loop over range(candidate_verse, high + 1); best is the record of
\* best_ref, best_ratio and best_mode
RECURSIVE ScanNeighbors(_, _, _, _, _, _)
ScanNeighbors(tb2_norm, ref_rows, verse, candidate_verse, high, best) ==
    IF candidate_verse > high THEN best
    ELSE LET candidate == RowGet(ref_rows, candidate_verse)
             ratio == sequence_ratio(tb2_norm, candidate.normalized)
             next ==
                 IF candidate_verse = verse \/ candidate = NoRow THEN best
                 ELSE IF RatioGt(ratio, best.ratio)
                 THEN [ref |-> candidate, ratio |-> ratio, mode |-> "neighbor"]
                 ELSE best
         IN  ScanNeighbors(tb2_norm, ref_rows, verse, candidate_verse + 1, high, next)

choose_reference(tb2_norm, ref_rows, verse, min_direct, min_neighbor, window) ==
    With(RowGet(ref_rows, verse), LAMBDA direct_ref :
    With(IF direct_ref # NoRow
         THEN sequence_ratio(tb2_norm, direct_ref.normalized)
         ELSE <<0, 1>>, LAMBDA direct_ratio :
        IF DirectTrusted(direct_ratio, min_direct, direct_ref)
        THEN [ref |-> direct_ref, mode |-> "same", ratio |-> direct_ratio]
        ELSE With(ScanNeighbors(
                      tb2_norm, ref_rows, verse,
                      ScanLow(verse, window),
                      ScanHigh(verse, window),
                      [ref |-> direct_ref, ratio |-> direct_ratio,
                       mode |-> "same"]), LAMBDA best :
                 IF best.ref = NoRow
                 THEN [ref |-> NoRow, mode |-> "none", ratio |-> best.ratio]
                 ELSE IF best.mode = "neighbor"
                         /\ RatioGeq(best.ratio, min_neighbor)
                 THEN [ref |-> best.ref, mode |-> best.mode, ratio |-> best.ratio]
                 ELSE [ref |-> NoRow, mode |-> "none", ratio |-> best.ratio])))

-----------------------------------------------------------------------------
(* Boundary projector                                                      *)

\* map_stream2_to_ref: for each offset of stream2 the offset of the
\* reference stream it is matched to, None outside the matching blocks
StreamMap(stream2, stream_ref) ==
    With(get_matching_blocks(stream2, stream_ref), LAMBDA blocks :
        [p \in 0..(Len(stream2) - 1) |->
            IF \E m \in blocks : m[1] <= p /\ p < m[1] + m[3]
            THEN LET m == CHOOSE x \in blocks : x[1] <= p /\ p < x[1] + x[3]
                 IN  m[2] + (p - m[1])
            ELSE None])

\* KeepSpaceAfterWord with a gap that maps nowhere merged instead of kept
KeepSpaceAfterWord_MergeUnmapped(s2, sr) ==
    With(StreamMap(s2.stream, sr.stream), LAMBDA map :
        [i \in 1..(Len(s2.words) - 1) |->
            LET boundary == s2.boundaries[i]
                ref_boundary ==
                    IF boundary - 1 >= 0 /\ map[boundary - 1] # None
                    THEN map[boundary - 1] + 1
                    ELSE IF boundary < Len(s2.stream) /\ map[boundary] # None
                    THEN map[boundary]
                    ELSE None
            IN  IF ref_boundary # None THEN ref_boundary \in sr.boundary_set
                ELSE FALSE])

\* KeepSpaceAfterWord with the offset before the gap mapped without the + 1
KeepSpaceAfterWord_OffByOne(s2, sr) ==
    With(StreamMap(s2.stream, sr.stream), LAMBDA map :
        [i \in 1..(Len(s2.words) - 1) |->
            LET boundary == s2.boundaries[i]
                ref_boundary ==
                    IF boundary - 1 >= 0 /\ map[boundary - 1] # None
                    THEN map[boundary - 1]
                    ELSE IF boundary < Len(s2.stream) /\ map[boundary] # None
                    THEN map[boundary]
                    ELSE None
            IN  IF ref_boundary # None THEN ref_boundary \in sr.boundary_set
                ELSE TRUE])

\* keep_space_after_word[i] for the gap after word i (from 1)
KeepSpaceAfterWord(s2, sr) ==
    With(StreamMap(s2.stream, sr.stream), LAMBDA map :
        [i \in 1..(Len(s2.words) - 1) |->
            LET boundary == s2.boundaries[i]
                ref_boundary ==
                    IF boundary - 1 >= 0 /\ map[boundary - 1] # None
                    THEN map[boundary - 1] + 1
                    ELSE IF boundary < Len(s2.stream) /\ map[boundary] # None
                    THEN map[boundary]
                    ELSE None
            IN  IF ref_boundary # None THEN ref_boundary \in sr.boundary_set
                ELSE TRUE])

\* the rebuilt token list when the words merged into a group keep their own
\* token as well
RebuildTokens_Unkilled(s2, keep) ==
    LET nw == Len(s2.words)
        IsStart(w) == w = 1 \/ keep[w - 1]
        GroupEnd(w) ==
            CHOOSE e \in w..nw :
                /\ \A x \in w..(e - 1) : ~keep[x]
                /\ (e = nw \/ keep[e])
        Merged(w) == Join([x \in 1..(GroupEnd(w) - w + 1) |-> s2.words[w + x - 1]])
        InsideGroup(t) ==
            \E k \in 1..(nw - 1) :
                /\ ~keep[k]
                /\ s2.word_indexes[k] < t
                /\ t < s2.word_indexes[k + 1]
    IN  [t \in 1..Len(s2.tokens) |->
            IF \E w \in 1..nw : s2.word_indexes[w] = t
            THEN LET w == CHOOSE x \in 1..nw : s2.word_indexes[x] = t
                 IN  IF IsStart(w) THEN Merged(w) ELSE s2.words[w]
            ELSE IF InsideGroup(t) /\ IsSpace(s2.tokens[t]) THEN <<>>
            ELSE s2.tokens[t]]

\* the rebuilt token list: the first word of each merged group carries the
\* whole group, the other words of the group are emptied, and so is every
\* all-whitespace token between two words of one group
RebuildTokens(s2, keep) ==
    LET nw == Len(s2.words)
        IsStart(w) == w = 1 \/ keep[w - 1]
        \* last word of the group that starts at word w
        GroupEnd(w) ==
            CHOOSE e \in w..nw :
                /\ \A x \in w..(e - 1) : ~keep[x]
                /\ (e = nw \/ keep[e])
        Merged(w) == Join([x \in 1..(GroupEnd(w) - w + 1) |-> s2.words[w + x - 1]])
        \* the token lies strictly between two words of one group
        InsideGroup(t) ==
            \E k \in 1..(nw - 1) :
                /\ ~keep[k]
                /\ s2.word_indexes[k] < t
                /\ t < s2.word_indexes[k + 1]
    IN  [t \in 1..Len(s2.tokens) |->
            IF \E w \in 1..nw : s2.word_indexes[w] = t
            THEN LET w == CHOOSE x \in 1..nw : s2.word_indexes[x] = t
                 IN  IF IsStart(w) THEN Merged(w) ELSE <<>>
            ELSE IF InsideGroup(t) /\ IsSpace(s2.tokens[t]) THEN <<>>
            ELSE s2.tokens[t]]

project_boundaries(tb2_text, ref_text) ==
    With(build_stream(tb2_text), LAMBDA s2 :
    With(build_stream(ref_text), LAMBDA sr :
        IF s2.stream = <<>> \/ sr.stream = <<>> \/ s2.words = <<>>
        THEN tb2_text
        ELSE Join(RebuildTokens(s2, KeepSpaceAfterWord(s2, sr)))))

-----------------------------------------------------------------------------
(* Segmentation fallback of clean_tb2_syllable_spacing.py                  *)
(* Scores are in thousandths: 6.0 is 6000.                                 *)

COMMON_STANDALONE_SHORT == {
    <<"d","i">>, <<"k","e">>, <<"k","u">>, <<"m","u">>,
    <<"y","a">>, <<"i","a">>, <<"a","k","u">>, <<"k","a","u">>,
    <<"d","a","n">>, <<"y","a","n","g">>, <<"i","t","u">>, <<"i","n","i">>,
    <<"p","u","n">>}

DO_NOT_JOIN_TWO == {
    <<"d","i">>, <<"k","e">>, <<"d","a","r","i">>, <<"d","a","n">>,
    <<"y","a","n","g">>, <<"u","n","t","u","k">>, <<"p","a","d","a">>, <<"d","a","l","a","m">>,
    <<"d","e","n","g","a","n">>, <<"o","l","e","h">>, <<"a","g","a","r">>, <<"a","t","a","u">>,
    <<"t","e","t","a","p","i">>, <<"k","a","r","e","n","a">>, <<"s","e","b","a","b">>}

SUFFIX_TOKENS == {
    <<"l","a","h">>, <<"k","a","h">>, <<"p","u","n">>, <<"n","y","a">>,
    <<"k","u">>, <<"m","u">>}

\* Counter.get(word, 0): a lexicon is a function from its words to counts
LexGet(lexicon, word) == IF word \in DOMAIN lexicon THEN lexicon[word] ELSE 0

\* math.log10(n) * 1.8 in thousandths, rounded, for the counts + 1 the
\* lexicons of this model hold
Log10Times1800(n) ==
    CASE n = 2 -> 542
      [] n = 3 -> 859
      [] n = 4 -> 1084
      [] n = 5 -> 1258
      [] n = 10 -> 1800
      [] n = 51 -> 3074
      [] n = 1000 -> 5400

\* the optional wordfreq package: zipf.avail is FALSE when the import failed
\* (zipf_frequency is None), and zipf.z is the package's table otherwise, in
\* thousandths; a word outside the table has frequency 0
NoZipf == [avail |-> FALSE, z |-> <<>>]

\* zipf_frequency(word, lang)
ZipfGet(zipf, word) == IF word \in DOMAIN zipf.z THEN zipf.z[word] ELSE 0

token_score(token, lexicon, zipf) ==
    With(Lowered(token), LAMBDA lowered :
    With(LexGet(lexicon, lowered), LAMBDA freq :
    With(ZipfGet(zipf, lowered), LAMBDA z :
        IF lowered = <<>> THEN -10000
        ELSE IF freq > 0 THEN 6000 + Log10Times1800(freq + 1)
        ELSE IF zipf.avail /\ z >= 5200 THEN 4000 + (z - 5200)
        ELSE IF zipf.avail /\ z >= 4600 /\ Len(lowered) >= 4 THEN 2000 + (z - 4600)
        ELSE IF Len(lowered) <= 2 /\ lowered \notin COMMON_STANDALONE_SHORT
        THEN -6000
        ELSE IF Len(lowered) = 3 /\ lowered \notin COMMON_STANDALONE_SHORT
        THEN -3500
        ELSE -2500)))

RECURSIVE SumTokenScores(_, _, _)
SumTokenScores(tokens, lexicon, zipf) ==
    IF tokens = <<>> THEN 0
    ELSE token_score(tokens[1], lexicon, zipf)
         + SumTokenScores(Tail(tokens), lexicon, zipf)

\* the score that rejects a group
REJECTED == -9999000

\* fallback_group_score with the comparison against the split score inverted
fallback_group_score_Inverted(tokens, lexicon, zipf) ==
    IF Len(tokens) = 1 THEN token_score(tokens[1], lexicon, zipf)
    ELSE
    With(Lowered(tokens[1]), LAMBDA first :
    With(Join(tokens), LAMBDA merged :
    With(token_score(merged, lexicon, zipf), LAMBDA merged_score :
    With(SumTokenScores(tokens, lexicon, zipf), LAMBDA split_score :
    With(800 * (Len(tokens) - 1), LAMBDA bonus :
        IF Len(tokens) = 2 /\ first \in DO_NOT_JOIN_TWO
           /\ LexGet(lexicon, Lowered(merged)) = 0
        THEN REJECTED
        ELSE IF merged_score + bonus > split_score - 200 THEN REJECTED
        ELSE IF merged_score < 500 THEN REJECTED
        ELSE merged_score + bonus)))))

\* fallback_group_score without the confidence floor
fallback_group_score_NoFloor(tokens, lexicon, zipf) ==
    IF Len(tokens) = 1 THEN token_score(tokens[1], lexicon, zipf)
    ELSE
    With(Lowered(tokens[1]), LAMBDA first :
    With(Join(tokens), LAMBDA merged :
    With(token_score(merged, lexicon, zipf), LAMBDA merged_score :
    With(SumTokenScores(tokens, lexicon, zipf), LAMBDA split_score :
    With(800 * (Len(tokens) - 1), LAMBDA bonus :
        IF Len(tokens) = 2 /\ first \in DO_NOT_JOIN_TWO
           /\ LexGet(lexicon, Lowered(merged)) = 0
        THEN REJECTED
        ELSE IF merged_score + bonus < split_score - 200 THEN REJECTED
        ELSE merged_score + bonus)))))

fallback_group_score(tokens, lexicon, zipf) ==
    IF Len(tokens) = 1 THEN token_score(tokens[1], lexicon, zipf)
    ELSE
    With(Lowered(tokens[1]), LAMBDA first :
    With(Join(tokens), LAMBDA merged :
    With(token_score(merged, lexicon, zipf), LAMBDA merged_score :
    With(SumTokenScores(tokens, lexicon, zipf), LAMBDA split_score :
    With(800 * (Len(tokens) - 1), LAMBDA bonus :
        IF Len(tokens) = 2 /\ first \in DO_NOT_JOIN_TWO
           /\ LexGet(lexicon, Lowered(merged)) = 0
        THEN REJECTED
        ELSE IF merged_score + bonus < split_score - 200 THEN REJECTED
        ELSE IF merged_score < 500 THEN REJECTED
        ELSE merged_score + bonus)))))

\* the total of a candidate group, with what follows it left out
CandidateTotal_Greedy(score, rest) == score

\* total = score + best_score[i + k]
CandidateTotal(score, rest) == score + rest

\* the inner loop with total >= best_score[i] in place of total > best_score[i]
RECURSIVE TryGroups_LastBest(_, _, _, _, _, _, _, _)
TryGroups_LastBest(words, lexicon, zipf, i, k, upper, best_score, best) ==
    IF k > upper THEN best
    ELSE LET chunk == Slice(words, i, i + k)
             score == fallback_group_score(chunk, lexicon, zipf)
             total == CandidateTotal(score, best_score[i + k])
             next == IF score <= -9990000 THEN best
                     ELSE IF total >= best.score THEN [score |-> total, len |-> k]
                     ELSE best
         IN  TryGroups_LastBest(words, lexicon, zipf, i, k + 1, upper, best_score, next)

\* the inner loop of fallback_merge_words, for k in range(k, upper + 1);
\* best is the record of best_score[i] and best_len[i] so far
RECURSIVE TryGroups(_, _, _, _, _, _, _, _)
TryGroups(words, lexicon, zipf, i, k, upper, best_score, best) ==
    IF k > upper THEN best
    ELSE LET chunk == Slice(words, i, i + k)
             score == fallback_group_score(chunk, lexicon, zipf)
             total == CandidateTotal(score, best_score[i + k])
             next == IF score <= -9990000 THEN best
                     ELSE IF total > best.score THEN [score |-> total, len |-> k]
                     ELSE best
         IN  TryGroups(words, lexicon, zipf, i, k + 1, upper, best_score, next)

\* the outer loop, for i in range(i, -1, -1); tab is the record of the
\* arrays best_score (offsets 0..n) and best_len (offsets 0..n-1)
RECURSIVE FillTable(_, _, _, _, _, _)
FillTable(words, lexicon, zipf, max_group, i, tab) ==
    IF i < 0 THEN tab
    ELSE LET n == Len(words)
             upper == Min(max_group, n - i)
             best == TryGroups(words, lexicon, zipf, i, 1, upper, tab.best_score,
                               [score |-> tab.best_score[i], len |-> tab.best_len[i]])
         IN  FillTable(words, lexicon, zipf, max_group, i - 1,
                       [best_score |-> [tab.best_score EXCEPT ![i] = best.score],
                        best_len |-> [tab.best_len EXCEPT ![i] = best.len]])

\* best_score and best_len once both loops have run
fallback_table(words, lexicon, zipf, max_group) ==
    LET n == Len(words)
    IN  FillTable(words, lexicon, zipf, max_group, n - 1,
                  [best_score |-> [j \in 0..n |-> IF j = n THEN 0 ELSE -10000000],
                   best_len |-> [j \in 0..(n - 1) |-> 1]])

\* the reconstruction loop with i += 1 in place of i += k
RECURSIVE ReadPlan_StepOne(_, _, _)
ReadPlan_StepOne(best_len, i, n) ==
    IF i >= n THEN <<>>
    ELSE <<best_len[i]>> \o ReadPlan_StepOne(best_len, i + 1, n)

\* the group lengths read off best_len from offset i on
RECURSIVE ReadPlan(_, _, _)
ReadPlan(best_len, i, n) ==
    IF i >= n THEN <<>>
    ELSE <<best_len[i]>> \o ReadPlan(best_len, i + best_len[i], n)

\* the groups of words that a list of group lengths cuts, each joined
RECURSIVE GroupsOf(_, _)
GroupsOf(words, plan) ==
    IF plan = <<>> THEN <<>>
    ELSE <<Join(Slice(words, 0, plan[1]))>>
         \o GroupsOf(Slice(words, plan[1], Len(words)), Tail(plan))

\* the segmentation plan of fallback_merge_words
fallback_plan(words, lexicon, zipf, max_group) ==
    IF Len(words) <= 1 THEN [j \in 1..Len(words) |-> 1]
    ELSE ReadPlan(fallback_table(words, lexicon, zipf, max_group).best_len,
                  0, Len(words))

fallback_merge_words(words, lexicon, zipf, max_group) ==
    JoinWith(<<" ">>, GroupsOf(words, fallback_plan(words, lexicon, zipf, max_group)))

\* max_group: int = 5
DEFAULT_MAX_GROUP == 5

\* the replacement of WORD_RUN_RE.sub over the token list from position t:
\* a run is two or more word tokens separated by all-whitespace tokens, as
\* long as it can be; run holds the words of the run being collected
RECURSIVE SubRuns(_, _, _, _, _)
SubRuns(tokens, t, run, lexicon, zipf) ==
    LET flush == IF Len(run) >= 2
                 THEN fallback_merge_words(run, lexicon, zipf, DEFAULT_MAX_GROUP)
                 ELSE Join(run)
    IN  IF t > Len(tokens) THEN flush
        ELSE IF is_word_token(tokens[t])
        THEN SubRuns(tokens, t + 1, Append(run, tokens[t]), lexicon, zipf)
        ELSE IF run # <<>> /\ IsSpace(tokens[t]) /\ t < Len(tokens)
        THEN SubRuns(tokens, t + 1, run, lexicon, zipf)
        ELSE flush \o tokens[t] \o SubRuns(tokens, t + 1, <<>>, lexicon, zipf)

fallback_clean_text(text, lexicon, zipf) ==
    SubRuns(split_tokens(text), 1, <<>>, lexicon, zipf)

-----------------------------------------------------------------------------
(* Segmentation fallback of clean_bible_import_text.py                     *)

IMPORT_DO_NOT_JOIN_TWO == {
    <<"d","i">>, <<"k","e">>, <<"s","e">>, <<"d","a","r","i">>,
    <<"d","a","n">>, <<"y","a","n","g">>, <<"u","n","t","u","k">>, <<"p","a","d","a">>,
    <<"d","a","l","a","m">>, <<"d","e","n","g","a","n">>, <<"o","l","e","h">>, <<"a","n","t","a","r","a">>,
    <<"a","t","a","u">>, <<"t","e","t","a","p","i">>, <<"a","g","a","r">>, <<"k","e","p","a","d","a">>,
    <<"p","a","r","a">>, <<"s","a","a","t">>, <<"j","i","k","a">>}

IMPORT_PREFIX_TOKENS == {
    <<"d","i">>, <<"k","e">>, <<"s","e">>, <<"b","e","r">>,
    <<"t","e","r">>, <<"p","e","r">>, <<"p","e">>, <<"m","e">>,
    <<"m","e","m">>, <<"m","e","n">>, <<"m","e","n","g">>, <<"p","e","m">>,
    <<"p","e","n">>, <<"p","e","n","g">>}

IMPORT_SUFFIX_TOKENS == {
    <<"a","n">>, <<"k","a","n">>, <<"n","y","a">>, <<"l","a","h">>,
    <<"k","a","h">>, <<"k","u">>, <<"m","u">>, <<"p","u","n">>,
    <<"i">>}

BIBLICAL_WORDS == {
    <<"t","o","b","i","t">>, <<"t","o","b","i","a">>, <<"r","a","g","u","e","l">>,
    <<"n","a","f","t","a","l","i">>, <<"y","e","r","u","s","a","l","e","m">>, <<"y","u","d","e","a">>,
    <<"s","a","m","a","r","i","a">>, <<"n","i","n","i","w","e">>, <<"a","s","y","u","r">>,
    <<"i","s","r","a","e","l">>, <<"i","s","r","a","e","l","i">>, <<"a","l","l","a","h">>,
    <<"y","u","d","i","t">>, <<"s","i","r","a","k","h">>, <<"b","a","r","u","k","h">>,
    <<"m","a","k","a","b","e">>, <<"m","a","k","a","b">>, <<"d","e","u","t","e","r","o","k","a","n","o","n","i","k","a">>,
    <<"d","e","u","t","e","r","o","k","a","n","o","n","i","k">>, <<"s","a","l","o","m","o">>, <<"y","e","r","o","b","e","a","m">>,
    <<"y","e","h","u","d","a">>}

\* token_freq: the one table stands for max(zipf "id", zipf "en")
token_freq(token, zipf) ==
    With(Lowered(token), LAMBDA t :
    With(IF ~zipf.avail THEN (IF t \in BIBLICAL_WORDS THEN 6000 ELSE 0)
         ELSE ZipfGet(zipf, t), LAMBDA base :
        IF t = <<>> THEN 0
        ELSE IF Len(t) <= 2 THEN (base * 25) \div 100
        ELSE IF Len(t) = 3 THEN (base * 55) \div 100
        ELSE base))

merged_word_freq(word, zipf) ==
    With(Lowered(word), LAMBDA w :
    With(token_freq(w, zipf), LAMBDA freq :
        IF w = <<>> THEN 0
        ELSE IF w \in BIBLICAL_WORDS THEN Max(freq, 6000)
        ELSE freq))

\* should_allow_group without the never-merge rule
should_allow_group_AnyPair(tokens) ==
    IF Len(tokens) <= 1 THEN TRUE
    ELSE IF Len(Join(tokens)) <= 2 THEN FALSE
    ELSE TRUE

should_allow_group(tokens) ==
    IF Len(tokens) <= 1 THEN TRUE
    ELSE IF Len(Join(tokens)) <= 2 THEN FALSE
    ELSE IF Len(tokens) = 2 /\ Lowered(tokens[1]) \in IMPORT_DO_NOT_JOIN_TWO
    THEN FALSE
    ELSE TRUE

RECURSIVE SumTokenFreqs(_, _)
SumTokenFreqs(tokens, zipf) ==
    IF tokens = <<>> THEN 0
    ELSE token_freq(tokens[1], zipf) + SumTokenFreqs(Tail(tokens), zipf)

\* the score with which group_score rejects a group
IMPORT_REJECTED == -10000000

group_score(tokens, zipf) ==
    IF Len(tokens) = 1 THEN token_freq(tokens[1], zipf)
    ELSE IF ~should_allow_group(tokens) THEN IMPORT_REJECTED
    ELSE
    With(Join(tokens), LAMBDA merged :
    With(merged_word_freq(merged, zipf), LAMBDA merged_freq :
    With(SumTokenFreqs(tokens, zipf), LAMBDA part_sum :
    With(Cardinality({i \in 1..Len(tokens) : Len(tokens[i]) <= 3}), LAMBDA short_count :
    With(500 * (Len(tokens) - 1) + 350 * short_count
         + (IF Lowered(tokens[1]) \in IMPORT_PREFIX_TOKENS THEN 850 ELSE 0)
         + (IF Lowered(tokens[Len(tokens)]) \in IMPORT_SUFFIX_TOKENS
            THEN 1000 ELSE 0)
         + (IF tokens[1] # <<>> /\ tokens[1][1] \in UpperLetters
            THEN 450 ELSE 0), LAMBDA bonus :
        IF merged_freq + bonus < part_sum - 100 THEN IMPORT_REJECTED
        ELSE IF merged_freq < 1600 /\ Lowered(merged) \notin BIBLICAL_WORDS
        THEN IMPORT_REJECTED
        ELSE merged_freq + bonus)))))

\* the inner loop of merge_run, for k in range(k, upper + 1)
RECURSIVE MergeRunTryGroups(_, _, _, _, _, _, _)
MergeRunTryGroups(tokens, zipf, i, k, upper, best_score, best) ==
    IF k > upper THEN best
    ELSE LET part == Slice(tokens, i, i + k)
             score == group_score(part, zipf)
             total == score + best_score[i + k]
             next == IF score <= -9999000 THEN best
                     ELSE IF total > best.score THEN [score |-> total, len |-> k]
                     ELSE best
         IN  MergeRunTryGroups(tokens, zipf, i, k + 1, upper, best_score, next)

\* the outer loop of merge_run, for i in range(i, -1, -1)
RECURSIVE MergeRunFillTable(_, _, _, _, _)
MergeRunFillTable(tokens, zipf, max_group, i, tab) ==
    IF i < 0 THEN tab
    ELSE LET n == Len(tokens)
             upper == Min(max_group, n - i)
             best == MergeRunTryGroups(tokens, zipf, i, 1, upper, tab.best_score,
                         [score |-> tab.best_score[i], len |-> tab.best_len[i]])
         IN  MergeRunFillTable(tokens, zipf, max_group, i - 1,
                 [best_score |-> [tab.best_score EXCEPT ![i] = best.score],
                  best_len |-> [tab.best_len EXCEPT ![i] = best.len]])

\* the segmentation plan of merge_run
merge_run_plan(tokens, zipf, max_group) ==
    LET n == Len(tokens)
    IN  IF n <= 1 THEN [j \in 1..n |-> 1]
        ELSE ReadPlan(MergeRunFillTable(tokens, zipf, max_group, n - 1,
                          [best_score |-> [j \in 0..n |->
                                              IF j = n THEN 0 ELSE -10000000],
                           best_len |-> [j \in 0..(n - 1) |-> 1]]).best_len,
                      0, n)

\* merge_run returns the text and the number of groups of two or more tokens
merge_run(tokens, zipf, max_group) ==
    With(merge_run_plan(tokens, zipf, max_group), LAMBDA plan :
        [text |-> JoinWith(<<" ">>, GroupsOf(tokens, plan)),
         merges |-> IF Len(tokens) <= 1 THEN 0
                    ELSE Cardinality({j \in 1..Len(plan) : plan[j] > 1})])

\* max_group: int = 4
IMPORT_DEFAULT_MAX_GROUP == 4

-----------------------------------------------------------------------------
(* Cross-reference noise                                                   *)

REFERENCE_BOOK_ABBRS == {
    <<"K","e","j">>, <<"K","e","l">>, <<"I","m">>, <<"B","i","l">>, <<"U","l">>,
    <<"Y","o","s">>, <<"H","a","k">>, <<"R","u","t">>, <<"1","S","a","m">>, <<"2","S","a","m">>,
    <<"1","R","a","j">>, <<"2","R","a","j">>, <<"1","T","a","w">>, <<"2","T","a","w">>, <<"E","z","r">>,
    <<"N","e","h">>, <<"E","s","t">>, <<"A","y","b">>, <<"M","z","m">>, <<"A","m","s">>,
    <<"P","k","h">>, <<"K","i","d">>, <<"Y","e","s">>, <<"Y","e","r">>, <<"R","a","t">>,
    <<"Y","e","h">>, <<"D","a","n">>, <<"H","o","s">>, <<"Y","l">>, <<"A","m">>,
    <<"O","b">>, <<"Y","u","n">>, <<"M","i">>, <<"N","a","h">>, <<"H","a","b">>,
    <<"Z","e","f">>, <<"H","a","g">>, <<"Z","a">>, <<"M","a","l">>, <<"M","a","t">>,
    <<"M","r","k">>, <<"L","u","k">>, <<"Y","o","h">>, <<"K","i","s">>, <<"R","m">>,
    <<"1","K","o","r">>, <<"2","K","o","r">>, <<"G","a","l">>, <<"E","f">>, <<"F","l","p">>,
    <<"K","o","l">>, <<"1","T","e","s">>, <<"2","T","e","s">>, <<"1","T","i","m">>, <<"2","T","i","m">>,
    <<"T","i","t">>, <<"F","l","m">>, <<"I","b","r">>, <<"Y","a","k">>, <<"1","P","t","r">>,
    <<"2","P","t","r">>, <<"1","Y","o","h">>, <<"2","Y","o","h">>, <<"3","Y","o","h">>, <<"Y","u","d">>,
    <<"W","h","y">>, <<"T","o","b">>, <<"Y","d","t">>, <<"K","e","b">>, <<"S","i","r">>,
    <<"B","a","r">>, <<"1","M","a","k">>, <<"2","M","a","k">>}

\* the character at 0-based offset p of s, "" past the end
At(s, p) == IF 0 <= p /\ p < Len(s) THEN s[p + 1] ELSE ""

\* \d, \s, [LETTER_CLASS] and \w on one character
CharIs(kind, c) ==
    CASE kind = "digit" -> IsDigit(c)
      [] kind = "space" -> IsSpaceChar(c)
      [] kind = "letter" -> IsLetter(c)
      [] OTHER -> IsLetter(c) \/ IsDigit(c) \/ c = "_"

\* length of the maximal run of characters of a kind at offset p
RECURSIVE RunAt(_, _, _)
RunAt(s, p, kind) ==
    IF p < Len(s) /\ CharIs(kind, s[p + 1]) THEN 1 + RunAt(s, p + 1, kind) ELSE 0

\* end of \d{1,3} at p when the next character is `next`, else None
DigitsThen(s, p, next) ==
    With(RunAt(s, p, "digit"), LAMBDA d :
        IF 1 <= d /\ d <= 3 /\ At(s, p + d) = next THEN p + d + 1 ELSE None)

\* end of a greedy \d{1,3} at p, None without a digit
DigitsEnd(s, p) ==
    With(RunAt(s, p, "digit"), LAMBDA d :
        IF d = 0 THEN None ELSE p + Min(3, d))

\* end of \d{1,3}:\d{1,3}(?:-\d{1,3}(?::\d{1,3})?)? matched at p, else None
RefEnd(s, p) ==
    With(DigitsThen(s, p, ":"), LAMBDA colon :
    With(IF colon = None THEN None ELSE DigitsEnd(s, colon), LAMBDA e2 :
    With(IF e2 # None /\ At(s, e2) = "-" THEN DigitsEnd(s, e2 + 1) ELSE None, LAMBDA e3 :
    With(IF e3 # None /\ At(s, e3) = ":" THEN DigitsEnd(s, e3 + 1) ELSE None, LAMBDA e4 :
        IF e2 = None THEN None
        ELSE IF e3 = None THEN e2
        ELSE IF e4 = None THEN e3
        ELSE e4))))

\* end of \d{1,3}-\d{1,3} matched at p, else None
RangeEnd(s, p) ==
    With(DigitsThen(s, p, "-"), LAMBDA dash :
        IF dash = None THEN None ELSE DigitsEnd(s, dash))

\* end of (?:[1-3]?)[LETTER_CLASS]+\.? matched at p, else None
BookEnd(s, p) ==
    With(IF At(s, p) \in {"1", "2", "3"} /\ RunAt(s, p + 1, "letter") >= 1
         THEN p + 1 ELSE p, LAMBDA start :
    With(RunAt(s, start, "letter"), LAMBDA letters :
    With(start + letters, LAMBDA q :
        IF letters = 0 THEN None
        ELSE IF At(s, q) = "." THEN q + 1 ELSE q)))

\* end of the match of REFERENCE_TOKEN_RE at p: the first alternative that
\* matches, the last one being any single character
TokenEnd(s, p) ==
    With(RunAt(s, p, "space"), LAMBDA spaces :
    With(RefEnd(s, p), LAMBDA ref :
    With(RangeEnd(s, p), LAMBDA range :
    With(BookEnd(s, p), LAMBDA book :
    With(RunAt(s, p, "digit"), LAMBDA digits :
        IF spaces >= 1 THEN p + spaces
        ELSE IF ref # None THEN ref
        ELSE IF range # None THEN range
        ELSE IF book # None THEN book
        ELSE IF digits >= 1 THEN p + digits
        ELSE p + 1)))))

\* REFERENCE_TOKEN_RE.findall(text) from offset p
RECURSIVE ReferenceTokens(_, _)
ReferenceTokens(text, p) ==
    IF p >= Len(text) THEN <<>>
    ELSE <<Slice(text, p, TokenEnd(text, p))>> \o ReferenceTokens(text, TokenEnd(text, p))

\* CITATION_REF_RE.fullmatch(token)
IsCitationRef(token) == token # <<>> /\ RefEnd(token, 0) = Len(token)

\* CITATION_CONT_RE.fullmatch(token)
IsCitationCont(token) ==
    With(RunAt(token, 0, "digit"), LAMBDA d :
        /\ 1 <= d /\ d <= 3
        /\ \/ d = Len(token)
           \/ /\ At(token, d) = "-"
              /\ RunAt(token, d + 1, "digit") \in 1..3
              /\ d + 1 + RunAt(token, d + 1, "digit") = Len(token))

\* token.rstrip(".")
RECURSIVE RStripDots(_)
RStripDots(s) ==
    IF s # <<>> /\ s[Len(s)] = "." THEN RStripDots(SubSeq(s, 1, Len(s) - 1)) ELSE s

is_reference_book_token(token) ==
    /\ token # <<>>
    /\ BookEnd(token, 0) = Len(token)
    /\ RStripDots(token) \in REFERENCE_BOOK_ABBRS

\* separators of remove_cross_reference_noise
IsSeparatorToken(token) ==
    /\ Len(token) = 1
    /\ token[1] \in {",", ";", ":", ".", "!", "?", "(", ")", "[", "]", "\"", "'", "/", "-"}

\* the counters of the inner loop before its first token
NoCounts == [ref |-> 0, book |-> 0, cont |-> 0, sep |-> 0, nonspace |-> 0]

\* the inner while loop from token offset j: the offset where it stops and
\* the counters there
RECURSIVE ScanRun(_, _, _, _)
ScanRun(tokens, j, counts, prev_kind) ==
    IF j >= Len(tokens) THEN [j |-> j, counts |-> counts]
    ELSE LET current == tokens[j + 1]
             Counted(field) ==
                 [counts EXCEPT ![field] = @ + 1, !.nonspace = @ + 1]
         IN  IF IsSpace(current) THEN ScanRun(tokens, j + 1, counts, prev_kind)
             ELSE IF IsCitationRef(current)
                  THEN ScanRun(tokens, j + 1, Counted("ref"), "ref")
             ELSE IF is_reference_book_token(current)
                  THEN ScanRun(tokens, j + 1, Counted("book"), "book")
             ELSE IF IsSeparatorToken(current)
                  THEN ScanRun(tokens, j + 1, Counted("sep"), "sep")
             ELSE IF IsCitationCont(current) /\ prev_kind \in {"sep", "ref", "book", "cont"}
                  THEN ScanRun(tokens, j + 1, Counted("cont"), "cont")
             ELSE [j |-> j, counts |-> counts]

looks_like_reference(c) ==
    \/ c.ref >= 2 /\ (c.book >= 1 \/ c.cont >= 1)
    \/ c.book >= 1 /\ c.ref >= 1 /\ c.sep >= 1 /\ c.nonspace >= 5
    \/ c.ref >= 3

\* the outer while loop from token offset i: the offsets marked in remove
RECURSIVE MarkRemoved(_, _)
MarkRemoved(tokens, i) ==
    IF i >= Len(tokens) THEN {}
    ELSE LET token == tokens[i + 1]
             run == ScanRun(tokens, i, NoCounts, "")
         IN  IF IsSpace(token) THEN MarkRemoved(tokens, i + 1)
             ELSE IF ~(IsCitationRef(token) \/ is_reference_book_token(token)
                           \/ IsCitationCont(token))
                  THEN MarkRemoved(tokens, i + 1)
             ELSE IF looks_like_reference(run.counts)
                  THEN (i..(run.j - 1)) \cup MarkRemoved(tokens, run.j)
             ELSE MarkRemoved(tokens, i + 1)

\* "".join(token for idx, token in enumerate(tokens) if not remove[idx])
RECURSIVE JoinKept(_, _, _)
JoinKept(tokens, remove, idx) ==
    IF idx >= Len(tokens) THEN <<>>
    ELSE (IF idx \in remove THEN <<>> ELSE tokens[idx + 1])
         \o JoinKept(tokens, remove, idx + 1)

\* end of (?:[1-3]?[LETTER_CLASS]+\.?\s+)? followed by a reference, matched
\* at p, else None
ParensItemEnd(s, p) ==
    With(BookEnd(s, p), LAMBDA b :
    With(IF b # None /\ RunAt(s, b, "space") >= 1
         THEN b + RunAt(s, b, "space") ELSE p, LAMBDA q :
        RefEnd(s, q)))

\* end of the rest of REFERENCE_PARENS_RE after a reference that ends at p:
\* further items behind , or ; and then the closing parenthesis
RECURSIVE ParensRestEnd(_, _)
ParensRestEnd(s, p) ==
    LET q == p + RunAt(s, p, "space")
        item == IF At(s, q) \in {",", ";"}
                THEN ParensItemEnd(s, q + 1 + RunAt(s, q + 1, "space"))
                ELSE None
    IN  IF item # None THEN ParensRestEnd(s, item)
        ELSE IF At(s, q) = ")" THEN q + 1
        ELSE None

\* end of the match of REFERENCE_PARENS_RE at p, else None
ParensEnd(s, p) ==
    IF At(s, p) # "(" THEN None
    ELSE With(ParensItemEnd(s, p + 1 + RunAt(s, p + 1, "space")), LAMBDA item :
             IF item = None THEN None ELSE ParensRestEnd(s, item))

\* REFERENCE_PARENS_RE.sub("", s) from offset p
RECURSIVE SubReferenceParens(_, _)
SubReferenceParens(s, p) ==
    IF p >= Len(s) THEN <<>>
    ELSE IF ParensEnd(s, p) # None THEN SubReferenceParens(s, ParensEnd(s, p))
    ELSE <<s[p + 1]>> \o SubReferenceParens(s, p + 1)

\* end of the match of MALFORMED_HEAD_REF_RE at p, else None
MalformedHeadEnd(s, p) ==
    With(DigitsThen(s, p, ":"), LAMBDA c1 :
    With(IF c1 = None THEN None ELSE DigitsThen(s, c1, ":"), LAMBDA c2 :
    With(IF c2 = None THEN None ELSE c2 + RunAt(s, c2, "space"), LAMBDA q :
    With(IF q # None /\ At(s, q) \in {"1", "2", "3"}
              /\ RunAt(s, q + 1, "letter") >= 2
         THEN q + 1 ELSE q, LAMBDA start :
    With(IF q = None THEN 0 ELSE RunAt(s, start, "letter"), LAMBDA letters :
    With(start + Min(24, letters), LAMBDA r :
        IF p > 0 /\ CharIs("word", At(s, p - 1)) THEN None
        ELSE IF letters < 2 THEN None
        ELSE IF letters <= 24 /\ At(s, r) = "." THEN r + 1
        ELSE r))))))

\* MALFORMED_HEAD_REF_RE.sub("", s) from offset p
RECURSIVE SubMalformedHead(_, _)
SubMalformedHead(s, p) ==
    IF p >= Len(s) THEN <<>>
    ELSE IF MalformedHeadEnd(s, p) # None THEN SubMalformedHead(s, MalformedHeadEnd(s, p))
    ELSE <<s[p + 1]>> \o SubMalformedHead(s, p + 1)

\* re.sub(r"\s{2,}", " ", s) from offset p
RECURSIVE CollapseSpaces(_, _)
CollapseSpaces(s, p) ==
    IF p >= Len(s) THEN <<>>
    ELSE IF RunAt(s, p, "space") >= 2
         THEN <<" ">> \o CollapseSpaces(s, p + RunAt(s, p, "space"))
    ELSE <<s[p + 1]>> \o CollapseSpaces(s, p + 1)

\* re.sub(r"\s+([...])", r"\1", s) from offset p, for the characters in set
RECURSIVE DropSpaceBefore(_, _, _)
DropSpaceBefore(s, p, set) ==
    IF p >= Len(s) THEN <<>>
    ELSE LET n == RunAt(s, p, "space")
         IN  IF n >= 1 /\ At(s, p + n) \in set
             THEN <<s[p + n + 1]>> \o DropSpaceBefore(s, p + n + 1, set)
             ELSE <<s[p + 1]>> \o DropSpaceBefore(s, p + 1, set)

\* re.sub(r"([(\[{])\s+", r"\1", s) from offset p
RECURSIVE DropSpaceAfterOpen(_, _)
DropSpaceAfterOpen(s, p) ==
    IF p >= Len(s) THEN <<>>
    ELSE IF s[p + 1] \in {"(", "[", "{"}
         THEN <<s[p + 1]>> \o DropSpaceAfterOpen(s, p + 1 + RunAt(s, p + 1, "space"))
    ELSE <<s[p + 1]>> \o DropSpaceAfterOpen(s, p + 1)

SentencePunctuation == {",", ".", ";", ":", "!", "?"}

\* re.sub(r"\s*-\s*([,.;:!?])", r"\1", s) from offset p
RECURSIVE DropHyphenBefore(_, _)
DropHyphenBefore(s, p) ==
    IF p >= Len(s) THEN <<>>
    ELSE LET dash == p + RunAt(s, p, "space")
             mark == dash + 1 + RunAt(s, dash + 1, "space")
         IN  IF At(s, dash) = "-" /\ At(s, mark) \in SentencePunctuation
             THEN <<s[mark + 1]>> \o DropHyphenBefore(s, mark + 1)
             ELSE <<s[p + 1]>> \o DropHyphenBefore(s, p + 1)

\* str.strip(chars) for a set of characters
RECURSIVE StripChars(_, _)
StripChars(s, chars) ==
    IF s # <<>> /\ s[1] \in chars THEN StripChars(Tail(s), chars)
    ELSE IF s # <<>> /\ s[Len(s)] \in chars
         THEN StripChars(SubSeq(s, 1, Len(s) - 1), chars)
    ELSE s

remove_cross_reference_noise(text) ==
    With(ReferenceTokens(text, 0), LAMBDA tokens :
    With(MarkRemoved(tokens, 0), LAMBDA remove :
    With(JoinKept(tokens, remove, 0), LAMBDA joined :
    With(SubReferenceParens(joined, 0), LAMBDA no_parens :
    With(SubMalformedHead(no_parens, 0), LAMBDA no_heads :
    With(Strip(CollapseSpaces(no_heads, 0)), LAMBDA collapsed :
    With(DropSpaceBefore(collapsed, 0, SentencePunctuation), LAMBDA step1 :
    With(DropSpaceAfterOpen(step1, 0), LAMBDA step2 :
    With(DropSpaceBefore(step2, 0, {")", "]", "}"}), LAMBDA step3 :
    With(DropHyphenBefore(step3, 0), LAMBDA step4 :
        IF tokens = <<>> THEN text ELSE StripChars(step4, {" ", ";", ","})))))))))))

-----------------------------------------------------------------------------
(* Spacing                                                                 *)

\* MULTISPACE_RE.sub(" ", s) from offset p
RECURSIVE CollapseAllSpaces(_, _)
CollapseAllSpaces(s, p) ==
    IF p >= Len(s) THEN <<>>
    ELSE IF RunAt(s, p, "space") >= 1
         THEN <<" ">> \o CollapseAllSpaces(s, p + RunAt(s, p, "space"))
    ELSE <<s[p + 1]>> \o CollapseAllSpaces(s, p + 1)

\* lines 333-345: the chain of str.replace calls, in its order; a character
\* outside ASCII is written by its code point
SPACING_REPLACEMENTS ==
    << <<"\r", <<>> >>,
       <<"U+00A0", <<" ">> >>,
       <<"U+202F", <<" ">> >>,
       <<"U+2009", <<" ">> >>,
       <<"U+201D", <<"\"">> >>,
       <<"U+201C", <<"\"">> >>,
       <<"U+2019", <<"'">> >>,
       <<"U+2018", <<"'">> >>,
       <<"U+2014", <<"-">> >>,
       <<"U+2013", <<"-">> >>,
       <<"U+00AD", <<>> >>,
       <<"U+FB01", <<"f", "i">> >>,
       <<"U+FB02", <<"f", "l">> >> >>

\* text.replace(old, new, 1): only the first occurrence is replaced
Replace_First(text, old, new) ==
    IF \A i \in 1..Len(text) : text[i] # old THEN text
    ELSE LET first == CHOOSE i \in 1..Len(text) :
                          text[i] = old /\ \A j \in 1..(i - 1) : text[j] # old
         IN  SubSeq(text, 1, first - 1) \o new \o SubSeq(text, first + 1, Len(text))

\* text.replace(old, new) for a one-character old
Replace(text, old, new) ==
    IF \A i \in 1..Len(text) : text[i] # old THEN text
    ELSE Join([i \in 1..Len(text) |-> IF text[i] = old THEN new ELSE <<text[i]>>])

\* the replace calls from the k-th on
RECURSIVE ReplaceChain(_, _)
ReplaceChain(text, k) ==
    IF k > Len(SPACING_REPLACEMENTS) THEN text
    ELSE IF \A i \in 1..Len(text) : text[i] # SPACING_REPLACEMENTS[k][1]
    THEN ReplaceChain(text, k + 1)
    ELSE ReplaceChain(Replace(text, SPACING_REPLACEMENTS[k][1],
                              SPACING_REPLACEMENTS[k][2]), k + 1)

\* the replace chain, then MULTISPACE_RE.sub(" ", text).strip()
normalize_spacing(text) ==
    Strip(CollapseAllSpaces(ReplaceChain(text, 1), 0))

QuoteMarks == {"'", "\""}

\* re.sub(r":([\"'])", r": \1", s) from offset p
RECURSIVE SpaceAfterColon(_, _)
SpaceAfterColon(s, p) ==
    IF p >= Len(s) THEN <<>>
    ELSE IF s[p + 1] = ":" /\ At(s, p + 1) \in QuoteMarks
         THEN <<":", " ", s[p + 2]>> \o SpaceAfterColon(s, p + 2)
    ELSE <<s[p + 1]>> \o SpaceAfterColon(s, p + 1)

\* re.sub(r"(['\"])\s+", r"\1 ", s) from offset p
RECURSIVE OneSpaceAfterQuote(_, _)
OneSpaceAfterQuote(s, p) ==
    IF p >= Len(s) THEN <<>>
    ELSE IF s[p + 1] \in QuoteMarks /\ RunAt(s, p + 1, "space") >= 1
         THEN <<s[p + 1], " ">> \o OneSpaceAfterQuote(s, p + 1 + RunAt(s, p + 1, "space"))
    ELSE <<s[p + 1]>> \o OneSpaceAfterQuote(s, p + 1)

normalize_punctuation_spacing(text) ==
    With(normalize_spacing(text), LAMBDA t0 :
    With(DropSpaceBefore(t0, 0, SentencePunctuation), LAMBDA t1 :
    With(DropSpaceAfterOpen(t1, 0), LAMBDA t2 :
    With(DropSpaceBefore(t2, 0, {")", "]", "}"}), LAMBDA t3 :
    With(DropSpaceBefore(t3, 0, QuoteMarks), LAMBDA t4 :
    With(SpaceAfterColon(t4, 0), LAMBDA t5 :
    With(OneSpaceAfterQuote(t5, 0), LAMBDA t6 :
        Strip(CollapseAllSpaces(t6, 0)))))))))

\* \b at offset p in front of a word character: no word character before it
WordStartsAt(s, p) == p = 0 \/ ~CharIs("word", At(s, p - 1))

\* the chain of words of 1..3 word characters, separated by whitespace only,
\* that starts at p: the number of its words and the offset of its end
RECURSIVE ShortChain(_, _)
ShortChain(s, p) ==
    LET n == RunAt(s, p, "word")
        e == p + n
        gap == RunAt(s, e, "space")
        rest == ShortChain(s, e + gap)
    IN  IF n < 1 \/ n > 3 THEN [count |-> 0, end |-> p]
        ELSE IF gap >= 1 /\ rest.count >= 1
             THEN [count |-> 1 + rest.count, end |-> rest.end]
        ELSE [count |-> 1, end |-> e]

\* len(SHORT_RUN_RE.findall(s)) from offset p
RECURSIVE CountShortRuns(_, _)
CountShortRuns(s, p) ==
    IF p >= Len(s) THEN 0
    ELSE IF WordStartsAt(s, p) /\ ShortChain(s, p).count >= 3
         THEN 1 + CountShortRuns(s, ShortChain(s, p).end)
    ELSE CountShortRuns(s, p + 1)

-----------------------------------------------------------------------------
(* Post-processing steps                                                   *)

\* each pattern is \b part \s+ part ... \b, matched ignoring case
STATIC_SAFE_PHRASE_FIXES == <<
    [parts |-> <<<<"k","e","m","u">>, <<"d","i">>, <<"a","n">>>>,
     replacement |-> <<"k","e","m","u","d","i","a","n">>],
    [parts |-> <<<<"y","a">>, <<"h","u">>, <<"d","i">>>>,
     replacement |-> <<"y","a","h","u","d","i">>],
    [parts |-> <<<<"b","e","r">>, <<"d","i">>, <<"r","i">>>>,
     replacement |-> <<"b","e","r","d","i","r","i">>],
    [parts |-> <<<<"m","e","m","b","e","r","i">>, <<"t","a","h","u">>, <<"k","a","n">>>>,
     replacement |-> <<"m","e","m","b","e","r","i","t","a","h","u","k","a","n">>],
    [parts |-> <<<<"p","e","r">>, <<"b","u","a","t">>, <<"a","n">>>>,
     replacement |-> <<"p","e","r","b","u","a","t","a","n">>],
    [parts |-> <<<<"p","e","n","g">>, <<"l","i","h","a","t">>, <<"a","n">>>>,
     replacement |-> <<"p","e","n","g","l","i","h","a","t","a","n">>],
    [parts |-> <<<<"k","e">>, <<"r","a","j","a">>, <<"a","n">>>>,
     replacement |-> <<"k","e","r","a","j","a","a","n">>],
    [parts |-> <<<<"k","e">>, <<"t","e","t","a","p">>, <<"a","n">>>>,
     replacement |-> <<"k","e","t","e","t","a","p","a","n">>],
    [parts |-> <<<<"m","e">>, <<"l","a","k","u">>, <<"k","a","n">>>>,
     replacement |-> <<"m","e","l","a","k","u","k","a","n">>],
    [parts |-> <<<<"k","e">>, <<"k","u","a","s","a">>, <<"a","n">>>>,
     replacement |-> <<"k","e","k","u","a","s","a","a","n">>],
    [parts |-> <<<<"p","e","r">>, <<"k","a","t","a">>, <<"a","n">>>>,
     replacement |-> <<"p","e","r","k","a","t","a","a","n">>],
    [parts |-> <<<<"k","e">>, <<"m","u","l","i","a">>, <<"a","n">>>>,
     replacement |-> <<"k","e","m","u","l","i","a","a","n">>],
    [parts |-> <<<<"k","e">>, <<"k","u","a","t">>, <<"a","n">>>>,
     replacement |-> <<"k","e","k","u","a","t","a","n">>],
    [parts |-> <<<<"p","e","r">>, <<"a","p","i">>, <<"a","n">>>>,
     replacement |-> <<"p","e","r","a","p","i","a","n">>],
    [parts |-> <<<<"k","e">>, <<"t","u","r","u","n">>, <<"a","n">>>>,
     replacement |-> <<"k","e","t","u","r","u","n","a","n">>],
    [parts |-> <<<<"d","i">>, <<"b","e","r","i">>, <<"k","a","n">>>>,
     replacement |-> <<"d","i","b","e","r","i","k","a","n">>],
    [parts |-> <<<<"d","i">>, <<"l","a","k","u">>, <<"k","a","n">>>>,
     replacement |-> <<"d","i","l","a","k","u","k","a","n">>],
    [parts |-> <<<<"k","e">>, <<"a","d","a">>, <<"a","n">>>>,
     replacement |-> <<"k","e","a","d","a","a","n">>],
    [parts |-> <<<<"k","e">>, <<"g","e","l","a","p">>, <<"a","n">>>>,
     replacement |-> <<"k","e","g","e","l","a","p","a","n">>],
    [parts |-> <<<<"m","e">>, <<"s","i">>, <<"a","s">>>>,
     replacement |-> <<"m","e","s","i","a","s">>],
    [parts |-> <<<<"k","e">>, <<"b","e","n","a","r">>, <<"a","n">>>>,
     replacement |-> <<"k","e","b","e","n","a","r","a","n">>],
    [parts |-> <<<<"m","e">>, <<"l","e","p","a","s">>, <<"k","a","n">>>>,
     replacement |-> <<"m","e","l","e","p","a","s","k","a","n">>],
    [parts |-> <<<<"m","e">>, <<"m","e">>, <<"g","a","n","g">>>>,
     replacement |-> <<"m","e","m","e","g","a","n","g">>],
    [parts |-> <<<<"s","e">>, <<"p","e","r">>, <<"t","i","g","a">>>>,
     replacement |-> <<"s","e","p","e","r","t","i","g","a">>],
    [parts |-> <<<<"k","e">>, <<"r","a","j","a">>, <<"a","n","n","y","a">>>>,
     replacement |-> <<"k","e","r","a","j","a","a","n","n","y","a">>],
    [parts |-> <<<<"k","e">>, <<"p","a","d","a">>, <<"n","y","a">>>>,
     replacement |-> <<"k","e","p","a","d","a","n","y","a">>],
    [parts |-> <<<<"k","e">>, <<"p","a","d","a">>>>,
     replacement |-> <<"k","e","p","a","d","a">>],
    [parts |-> <<<<"d","i">>, <<"r","i">>>>,
     replacement |-> <<"d","i","r","i">>],
    [parts |-> <<<<"m","e">>, <<"l","i","h","a","t">>>>,
     replacement |-> <<"m","e","l","i","h","a","t">>],
    [parts |-> <<<<"k","e">>, <<"d","u","a">>>>,
     replacement |-> <<"k","e","d","u","a">>],
    [parts |-> <<<<"b","a","h">>, <<"k","a","n">>>>,
     replacement |-> <<"b","a","h","k","a","n">>],
    [parts |-> <<<<"p","e","r">>, <<"b","u","a","t">>>>,
     replacement |-> <<"p","e","r","b","u","a","t">>],
    [parts |-> <<<<"l","a","k","u">>, <<"k","a","n">>>>,
     replacement |-> <<"l","a","k","u","k","a","n">>],
    [parts |-> <<<<"d","e","m","i">>, <<"k","i","a","n">>>>,
     replacement |-> <<"d","e","m","i","k","i","a","n">>],
    [parts |-> <<<<"d","e","m","i">>, <<"k","i","a","n","l","a","h">>>>,
     replacement |-> <<"d","e","m","i","k","i","a","n","l","a","h">>],
    [parts |-> <<<<"k","e">>, <<"p","a","d","a","k","u">>>>,
     replacement |-> <<"k","e","p","a","d","a","k","u">>],
    [parts |-> <<<<"k","e">>, <<"p","a","d","a","m","u">>>>,
     replacement |-> <<"k","e","p","a","d","a","m","u">>],
    [parts |-> <<<<"k","e">>, <<"p","a","d","a","n","y","a">>>>,
     replacement |-> <<"k","e","p","a","d","a","n","y","a">>],
    [parts |-> <<<<"s","i">>, <<"a","p","a">>>>,
     replacement |-> <<"s","i","a","p","a">>],
    [parts |-> <<<<"k","e">>, <<"e","m","p","a","t">>>>,
     replacement |-> <<"k","e","e","m","p","a","t">>],
    [parts |-> <<<<"d","i">>, <<"b","e","r","i">>>>,
     replacement |-> <<"d","i","b","e","r","i">>],
    [parts |-> <<<<"p","e","r">>, <<"n","a","h">>>>,
     replacement |-> <<"p","e","r","n","a","h">>],
    [parts |-> <<<<"m","e">>, <<"l","a","w","a","n">>>>,
     replacement |-> <<"m","e","l","a","w","a","n">>],
    [parts |-> <<<<"k","e">>, <<"t","i","g","a">>>>,
     replacement |-> <<"k","e","t","i","g","a">>],
    [parts |-> <<<<"b","e","r","i">>, <<"k","a","n">>>>,
     replacement |-> <<"b","e","r","i","k","a","n">>],
    [parts |-> <<<<"m","e","n","d","e","n","g","a","r">>, <<"k","a","n">>>>,
     replacement |-> <<"m","e","n","d","e","n","g","a","r","k","a","n">>],
    [parts |-> <<<<"p","a">>, <<"d","a">>>>,
     replacement |-> <<"p","a","d","a">>],
    [parts |-> <<<<"h","a">>, <<"r","i">>>>,
     replacement |-> <<"h","a","r","i">>],
    [parts |-> <<<<"j","a">>, <<"d","i">>>>,
     replacement |-> <<"j","a","d","i">>],
    [parts |-> <<<<"p","a","d","a">>, <<"n","y","a">>>>,
     replacement |-> <<"p","a","d","a","n","y","a">>],
    [parts |-> <<<<"p","e","n","g","a","j","a","r">>, <<"a","n">>>>,
     replacement |-> <<"p","e","n","g","a","j","a","r","a","n">>],
    [parts |-> <<<<"a","p","i">>, <<"a","n">>>>,
     replacement |-> <<"a","p","i","a","n">>],
    [parts |-> <<<<"d","i">>, <<"r","i","n","y","a">>>>,
     replacement |-> <<"d","i","r","i","n","y","a">>],
    [parts |-> <<<<"t","e","r">>, <<"t","u","l","i","s">>>>,
     replacement |-> <<"t","e","r","t","u","l","i","s">>],
    [parts |-> <<<<"d","i">>, <<"b","a","w","a">>>>,
     replacement |-> <<"d","i","b","a","w","a">>],
    [parts |-> <<<<"k","a","t","a">>, <<"k","a","n">>>>,
     replacement |-> <<"k","a","t","a","k","a","n">>],
    [parts |-> <<<<"n","y","a","t","a">>, <<"k","a","n">>>>,
     replacement |-> <<"n","y","a","t","a","k","a","n">>],
    [parts |-> <<<<"b","u","a","t">>, <<"a","n">>>>,
     replacement |-> <<"b","u","a","t","a","n">>],
    [parts |-> <<<<"t","e","r">>, <<"j","a","d","i">>>>,
     replacement |-> <<"t","e","r","j","a","d","i">>],
    [parts |-> <<<<"p","e","m","e","r","i","n","t","a","h">>, <<"a","n">>>>,
     replacement |-> <<"p","e","m","e","r","i","n","t","a","h","a","n">>],
    [parts |-> <<<<"s","e","m">>, <<"b","a","h">>>>,
     replacement |-> <<"s","e","m","b","a","h">>],
    [parts |-> <<<<"s","e","m">>, <<"b","a","h">>, <<"a","n">>>>,
     replacement |-> <<"s","e","m","b","a","h","a","n">>],
    [parts |-> <<<<"p","e","r">>, <<"s","e","m">>, <<"b","a","h">>, <<"k","a","n">>>>,
     replacement |-> <<"p","e","r","s","e","m","b","a","h","k","a","n">>],
    [parts |-> <<<<"p","e","r">>, <<"s","e","m">>, <<"b","a","h">>, <<"a","n">>>>,
     replacement |-> <<"p","e","r","s","e","m","b","a","h","a","n">>],
    [parts |-> <<<<"m","e","n">>, <<"d","i","r","i">>, <<"k","a","n">>>>,
     replacement |-> <<"m","e","n","d","i","r","i","k","a","n">>],
    [parts |-> <<<<"k","a">>, <<"r","e">>, <<"n","a">>>>,
     replacement |-> <<"k","a","r","e","n","a">>],
    [parts |-> <<<<"s","a","u">>, <<"d","a">>, <<"r","a">>>>,
     replacement |-> <<"s","a","u","d","a","r","a">>],
    [parts |-> <<<<"d","i">>, <<"t","a","r","u","h">>>>,
     replacement |-> <<"d","i","t","a","r","u","h">>],
    [parts |-> <<<<"m","e">>, <<"l","a","h","i","r">>, <<"k","a","n">>>>,
     replacement |-> <<"m","e","l","a","h","i","r","k","a","n">>],
    [parts |-> <<<<"k","e">>, <<"d","e","n","g","a","r">>, <<"a","n">>>>,
     replacement |-> <<"k","e","d","e","n","g","a","r","a","n">>],
    [parts |-> <<<<"k","e">>, <<"p","e","d","i","h">>, <<"a","n">>>>,
     replacement |-> <<"k","e","p","e","d","i","h","a","n">>],
    [parts |-> <<<<"m","e">>, <<"m","i","n","t","a">>>>,
     replacement |-> <<"m","e","m","i","n","t","a">>],
    [parts |-> <<<<"d","i">>, <<"t","u","m","p","a","s">>>>,
     replacement |-> <<"d","i","t","u","m","p","a","s">>]>>

\* end of the parts from the i-th on, separated by \s+ and closed by \b,
\* matched at p ignoring case, else None
RECURSIVE PartsEnd(_, _, _, _)
PartsEnd(s, p, parts, i) ==
    LET e == p + Len(parts[i])
        gap == RunAt(s, e, "space")
    IN  IF e > Len(s) \/ Lowered(Slice(s, p, e)) # parts[i] THEN None
        ELSE IF i = Len(parts)
             THEN IF CharIs("word", At(s, e)) THEN None ELSE e
        ELSE IF gap = 0 THEN None
        ELSE PartsEnd(s, e + gap, parts, i + 1)

\* pattern.sub(replacement, s) from offset p
RECURSIVE SubPhrase(_, _, _)
SubPhrase(s, p, fix) ==
    IF p >= Len(s) THEN <<>>
    ELSE LET e == IF LowerChar(s[p + 1]) = fix.parts[1][1] /\ WordStartsAt(s, p)
                  THEN PartsEnd(s, p, fix.parts, 1) ELSE None
         IN  IF e # None THEN fix.replacement \o SubPhrase(s, e, fix)
             ELSE <<s[p + 1]>> \o SubPhrase(s, p + 1, fix)

\* the for loop over the patterns lo..hi of the table, in their order: the
\* patterns of the first half, then those of the second half
RECURSIVE ApplyFixes(_, _, _)
ApplyFixes(fixed, lo, hi) ==
    IF lo = hi THEN SubPhrase(fixed, 0, STATIC_SAFE_PHRASE_FIXES[lo])
    ELSE LET mid == (lo + hi) \div 2
             half == ApplyFixes(fixed, lo, mid)
         IN  IF half = fixed THEN ApplyFixes(fixed, mid + 1, hi)
             ELSE ApplyFixes(half, mid + 1, hi)

\* the outer loop with `passes` passes left
RECURSIVE FixPasses(_, _)
FixPasses(fixed, passes) ==
    IF passes = 0 THEN fixed
    ELSE LET next == ApplyFixes(fixed, 1, Len(STATIC_SAFE_PHRASE_FIXES))
         IN  IF next = fixed THEN next ELSE FixPasses(next, passes - 1)

apply_static_safe_phrase_fixes(text) == FixPasses(text, 4)

\* sorted(SUFFIX_TOKENS): the order of the alternatives of the pattern
SortedSuffixTokens == <<<<"k","a","h">>, <<"k","u">>, <<"l","a","h">>, <<"m","u">>, <<"n","y","a">>, <<"p","u","n">>>>

\* end of (an alternative of the suffixes)\b matched at p ignoring case
SuffixEnd(s, p) ==
    With({i \in 1..Len(SortedSuffixTokens) :
             With(p + Len(SortedSuffixTokens[i]), LAMBDA e :
                 /\ e <= Len(s)
                 /\ Lowered(Slice(s, p, e)) = SortedSuffixTokens[i]
                 /\ ~CharIs("word", At(s, e)))}, LAMBDA hits :
        IF hits = {} THEN None
        ELSE p + Len(SortedSuffixTokens[CHOOSE i \in hits : \A j \in hits : i <= j]))

\* pattern.sub(r"\1\2", s) from offset p
RECURSIVE SubSuffix(_, _)
SubSuffix(s, p) ==
    IF p >= Len(s) THEN <<>>
    ELSE LET n == RunAt(s, p, "letter")
             gap == RunAt(s, p + n, "space")
             e == IF WordStartsAt(s, p) /\ n >= 1 /\ gap >= 1
                  THEN SuffixEnd(s, p + n + gap) ELSE None
         IN  IF e # None
             THEN Slice(s, p, p + n) \o Slice(s, p + n + gap, e) \o SubSuffix(s, e)
             ELSE <<s[p + 1]>> \o SubSuffix(s, p + 1)

\* the loop of apply_suffix_join with `passes` passes left
RECURSIVE SuffixPasses(_, _, _)
SuffixPasses(current, previous, passes) ==
    IF passes = 0 \/ current = previous THEN current
    ELSE SuffixPasses(SubSuffix(current, 0), current, passes - 1)

\* previous starts as None, so the first of the three passes always runs
apply_suffix_join(text) == SuffixPasses(SubSuffix(text, 0), text, 2)

\* str.upper() on one character
UpperChar(c) ==
    IF c \in LowerLetters
    THEN UpperSeq[CHOOSE i \in 1..Len(LowerSeq) : LowerSeq[i] = c]
    ELSE c

\* repl of restore_hyphen_forms; hyphen_lookup.get is None for an absent key
RestoredToken(token, hyphen_lookup) ==
    With(Lowered(token), LAMBDA normalized :
        IF normalized \notin DOMAIN hyphen_lookup THEN token
        ELSE IF hyphen_lookup[normalized] = <<>> THEN token
        ELSE IF token[1] \in UpperLetters
             THEN <<UpperChar(hyphen_lookup[normalized][1])>>
                  \o Tail(hyphen_lookup[normalized])
        ELSE hyphen_lookup[normalized])

\* re.sub(rf"\b[{LETTER_CLASS}]{{5,}}\b", repl, s) from offset p
RECURSIVE SubHyphenForms(_, _, _)
SubHyphenForms(s, p, hyphen_lookup) ==
    IF p >= Len(s) THEN <<>>
    ELSE LET n == RunAt(s, p, "letter")
         IN  IF WordStartsAt(s, p) /\ n >= 5 /\ ~CharIs("word", At(s, p + n))
             THEN RestoredToken(Slice(s, p, p + n), hyphen_lookup)
                  \o SubHyphenForms(s, p + n, hyphen_lookup)
             ELSE <<s[p + 1]>> \o SubHyphenForms(s, p + 1, hyphen_lookup)

restore_hyphen_forms(text, hyphen_lookup) == SubHyphenForms(text, 0, hyphen_lookup)

-----------------------------------------------------------------------------
(* Tail trimming                                                           *)

Abs(x) == IF x < 0 THEN -x ELSE x

\* int(n * 1.35), int(n * 0.65) and int(n * 1.55) for a length n
TimesMaxRatio(n) == (n * 135) \div 100
TimesBandLow(n) == (n * 65) \div 100
TimesBandHigh(n) == (n * 155) \div 100

\* sentence_ends: for each of . ! ? at offset idx the pair of idx + 1 and
\* the number of letters up to it; letter_count counts the letters before idx
RECURSIVE SentenceEnds(_, _, _)
SentenceEnds(source, idx, letter_count) ==
    IF idx >= Len(source) THEN <<>>
    ELSE LET char == source[idx + 1]
             count == IF IsLetter(char) THEN letter_count + 1 ELSE letter_count
         IN  (IF char \in {".", "!", "?"} THEN <<<<idx + 1, count>>>> ELSE <<>>)
             \o SentenceEnds(source, idx + 1, count)

\* min(candidates, key=...) with the last of the closest candidates taken
ClosestCandidate_Last(candidates, ref_letters) ==
    LET Dist(i) == Abs(candidates[i][2] - ref_letters)
        best == CHOOSE i \in 1..Len(candidates) :
                    /\ \A j \in 1..Len(candidates) : Dist(i) <= Dist(j)
                    /\ \A j \in (i + 1)..Len(candidates) : Dist(j) > Dist(i)
    IN  candidates[best]

\* min(candidates, key=lambda item: abs(item[1] - ref_letters)): the first
\* of the candidates closest to ref_letters
ClosestCandidate(candidates, ref_letters) ==
    LET Dist(i) == Abs(candidates[i][2] - ref_letters)
        best == CHOOSE i \in 1..Len(candidates) :
                    /\ \A j \in 1..Len(candidates) : Dist(i) <= Dist(j)
                    /\ \A j \in 1..(i - 1) : Dist(j) > Dist(i)
    IN  candidates[best]

trim_low_confidence_tail(text, reference_text) ==
    With(Strip(text), LAMBDA source :
    With(normalize_letters(source), LAMBDA source_norm :
    With(normalize_letters(reference_text), LAMBDA reference_norm :
    With(SentenceEnds(source, 0, 0), LAMBDA sentence_ends :
    With(Len(reference_norm), LAMBDA ref_letters :
    With(TimesBandLow(ref_letters), LAMBDA lower :
    With(TimesBandHigh(ref_letters), LAMBDA upper :
    With(LET InBand(item) == lower <= item[2] /\ item[2] <= upper
         IN  SelectSeq(sentence_ends, InBand), LAMBDA candidates :
        IF source = <<>> THEN source
        ELSE IF source_norm = <<>> \/ reference_norm = <<>> THEN source
        ELSE IF Len(source_norm) <= TimesMaxRatio(Len(reference_norm)) THEN source
        ELSE IF sentence_ends = <<>> THEN source
        ELSE IF candidates = <<>> THEN source
        ELSE With(Strip(Slice(source, 0,
                      ClosestCandidate(candidates, ref_letters)[1])), LAMBDA trimmed :
                 IF trimmed # <<>> THEN trimmed ELSE source)))))))))

-----------------------------------------------------------------------------
(* Reference index and lexicon                                             *)

\* int(s) succeeds: an optional sign and decimal digits, which single
\* underscores may separate
IsIntLiteral(s) ==
    LET body == IF s # <<>> /\ s[1] \in {"+", "-"} THEN Tail(s) ELSE s
    IN  /\ body # <<>>
        /\ IsDigit(body[1]) /\ IsDigit(body[Len(body)])
        /\ \A i \in 1..Len(body) : IsDigit(body[i]) \/ body[i] = "_"
        /\ \A i \in 1..(Len(body) - 1) : ~(body[i] = "_" /\ body[i + 1] = "_")

DigitValue(c) ==
    CHOOSE d \in 0..9 : <<"0", "1", "2", "3", "4", "5", "6", "7", "8", "9">>[d + 1] = c

RECURSIVE DigitsValue(_, _)
DigitsValue(digits, sofar) ==
    IF digits = <<>> THEN sofar
    ELSE DigitsValue(Tail(digits), 10 * sofar + DigitValue(digits[1]))

\* int(s) for a literal s
IntValue(s) ==
    With(DigitsValue(SelectSeq(s, IsDigit), 0), LAMBDA magnitude :
        IF s[1] = "-" THEN -magnitude ELSE magnitude)

\* row.get(field) or "": a csv row is a function from its column names
RowField(row, field) == IF field \in DOMAIN row THEN row[field] ELSE <<>>

\* dict.get(key, {}): the empty dict for an absent key
ChapterGet(index, book, chapter) ==
    IF <<book, chapter>> \in DOMAIN index THEN index[<<book, chapter>>] ELSE <<>>

\* the for loop of index_tb1_rows from the i-th row on
RECURSIVE IndexRowsFrom(_, _, _)
IndexRowsFrom(tb1_rows, i, index) ==
    IF i > Len(tb1_rows) THEN index
    ELSE LET row == tb1_rows[i]
             book == Strip(RowField(row, "book_name"))
             chapter == Strip(RowField(row, "chapter"))
             verse_raw == Strip(RowField(row, "verse"))
             text == normalize_spacing(RowField(row, "text"))
             skipped == \/ book = <<>> \/ chapter = <<>> \/ verse_raw = <<>>
                        \/ ~IsIntLiteral(verse_raw)
             verses == (IntValue(verse_raw) :> RowRef(IntValue(verse_raw), text))
                       @@ ChapterGet(index, book, chapter)
         IN  IF skipped THEN IndexRowsFrom(tb1_rows, i + 1, index)
             ELSE IndexRowsFrom(tb1_rows, i + 1, (<<book, chapter>> :> verses) @@ index)

index_tb1_rows(tb1_rows) == IndexRowsFrom(tb1_rows, 1, <<>>)

\* WORD_TOKEN_RE.findall(text)
WordTokens(text) == SelectSeq(split_tokens(text), is_word_token)

\* the lowered tokens of the text and pericope of every row, in order
RECURSIVE LexiconTokens(_)
LexiconTokens(tb1_rows) ==
    IF tb1_rows = <<>> THEN <<>>
    ELSE LET text == WordTokens(RowField(tb1_rows[1], "text"))
             pericope == WordTokens(RowField(tb1_rows[1], "pericope"))
         IN  [i \in 1..Len(text) |-> Lowered(text[i])]
             \o [i \in 1..Len(pericope) |-> Lowered(pericope[i])]
             \o LexiconTokens(Tail(tb1_rows))

\* s.split(ch), with the part collected so far
RECURSIVE SplitOn(_, _, _)
SplitOn(s, ch, part) ==
    IF s = <<>> THEN <<part>>
    ELSE IF s[1] = ch THEN <<part>> \o SplitOn(Tail(s), ch, <<>>)
    ELSE SplitOn(Tail(s), ch, Append(part, s[1]))

\* every token with parts between hyphens is counted in hyphen_forms
IsHyphenForm_AnyParts(lowered) ==
    With(SplitOn(lowered, "-", <<>>), LAMBDA parts :
        /\ Len(parts) >= 2
        /\ \A i \in 1..Len(parts) : parts[i] # <<>>)

\* the token is counted in hyphen_forms: it matches VALID_HYPHEN_WORD_RE, no
\* part after the first is a suffix token and no part is shorter than 3
IsHyphenForm(lowered) ==
    With(SplitOn(lowered, "-", <<>>), LAMBDA parts :
        /\ Len(parts) >= 2
        /\ \A i \in 1..Len(parts) : parts[i] # <<>>
        /\ \A i \in 2..Len(parts) : parts[i] \notin SUFFIX_TOKENS
        /\ \A i \in 1..Len(parts) : Len(parts[i]) >= 3)

IsNotHyphen(c) == c # "-"

\* the Counter of words and the hyphen lookup: for each joined form the
\* hyphenated spelling counted most often, the first inserted among equals
build_tb1_lexicon(tb1_rows) ==
    With(LexiconTokens(tb1_rows), LAMBDA tokens :
    With({tokens[i] : i \in 1..Len(tokens)}, LAMBDA words :
    With({w \in words : IsHyphenForm(w)}, LAMBDA forms :
        LET Count(w) == Cardinality({i \in 1..Len(tokens) : tokens[i] = w})
            First(w) == CHOOSE i \in 1..Len(tokens) :
                            tokens[i] = w /\ \A j \in 1..(i - 1) : tokens[j] # w
            Joined(w) == SelectSeq(w, IsNotHyphen)
            Best(joined) ==
                CHOOSE w \in forms :
                    /\ Joined(w) = joined
                    /\ \A o \in forms :
                           Joined(o) = joined =>
                               \/ Count(w) > Count(o)
                               \/ Count(w) = Count(o) /\ First(w) <= First(o)
        IN  [word_counter |-> [w \in words |-> Count(w)],
             hyphen_lookup |-> [joined \in {Joined(w) : w \in forms} |-> Best(joined)]])))

-----------------------------------------------------------------------------
(* main: one row of the for loop                                           *)

\* round(ratio, 4) in ten-thousandths, ties to the even neighbour
Round4(ratio) ==
    LET scaled == ratio[1] * 10000
        q == scaled \div ratio[2]
        twice == 2 * (scaled % ratio[2])
    IN  IF twice > ratio[2] \/ (twice = ratio[2] /\ q % 2 = 1) THEN q + 1 ELSE q

\* lines 879-883: the final normalizations in front of the tail trimming
FinalNormalizations(text, hyphen_lookup) ==
    normalize_punctuation_spacing(
        remove_cross_reference_noise(
            restore_hyphen_forms(
                apply_suffix_join(apply_static_safe_phrase_fixes(text)),
                hyphen_lookup)))

\* lines 811-819: the texts and the keys of a row
RowKeys(row) ==
    [source_text |-> normalize_spacing(RowField(row, "text")),
     source_pericope |-> normalize_spacing(RowField(row, "pericope")),
     book |-> Strip(RowField(row, "book_name")),
     chapter |-> Strip(RowField(row, "chapter")),
     verse_raw |-> Strip(RowField(row, "verse"))]

\* int(verse_raw) that yields 0 where the code yields None
VerseNum_Lenient(verse_raw) == IF IsIntLiteral(verse_raw) THEN IntValue(verse_raw) ELSE 0

\* lines 827-831: int(verse_raw), None when it raises ValueError
VerseNum(verse_raw) == IF IsIntLiteral(verse_raw) THEN IntValue(verse_raw) ELSE None

\* lines 833-843: direct_ref and the result of choose_reference, which is
\* called only for a verse number in a chapter that has reference rows
RowChoice(keys, chapter_index, verse_num, args) ==
    [direct_ref |-> IF verse_num # None THEN RowGet(chapter_index, verse_num) ELSE NoRow,
     selected |-> verse_num # None /\ DOMAIN chapter_index # {},
     chosen |->
         IF verse_num # None /\ DOMAIN chapter_index # {}
         THEN choose_reference(normalize_letters(keys.source_text), chapter_index,
                               verse_num, args.min_direct_ratio,
                               args.min_neighbor_ratio, args.neighbor_window)
         ELSE [ref |-> NoRow, mode |-> "none", ratio |-> <<0, 1>>]]

\* lines 844-850: method after the alignment attempt
RowMethod(chosen) ==
    IF chosen.ref = NoRow THEN "fallback"
    ELSE IF chosen.mode = "same" THEN "alignment_same"
    ELSE "alignment_neighbor"

\* lines 854-860 on the text that fallback_clean_text returned
FallbackRepair(fallback_text, low_confidence, direct_ref) ==
    IF low_confidence /\ direct_ref # NoRow
    THEN trim_low_confidence_tail(fallback_text, direct_ref.text)
    ELSE fallback_text

\* lines 844-860: the repaired text and pericope in front of the final
\* normalizations
RowRepair(keys, choice, method, low_confidence, lexicon, zipf) ==
    [method |-> method,
     confidence |-> choice.chosen.ratio,
     low_confidence |-> low_confidence,
     repaired_text |->
         IF method # "fallback"
         THEN project_boundaries(keys.source_text, choice.chosen.ref.text)
         ELSE FallbackRepair(fallback_clean_text(keys.source_text, lexicon, zipf),
                             low_confidence, choice.direct_ref),
     repaired_pericope |->
         IF keys.source_pericope = <<>> THEN keys.source_pericope
         ELSE IF method # "fallback"
              THEN project_boundaries(keys.source_pericope, choice.chosen.ref.text)
         ELSE fallback_clean_text(keys.source_pericope, lexicon, zipf)]

\* the repaired pericope written as it is, the final normalizations left out
PericopeFinal_Unnormalized(repaired_pericope, hyphen_lookup) == repaired_pericope

\* lines 888-893: the final normalizations of a non-empty pericope; no tail
\* trimming follows them
PericopeFinal(repaired_pericope, hyphen_lookup) ==
    IF repaired_pericope # <<>>
    THEN FinalNormalizations(repaired_pericope, hyphen_lookup)
    ELSE repaired_pericope

\* lines 884-893 and the local variables of the iteration
RowAligned(keys, choice, repair, normalized_text, hyphen_lookup) ==
    [source_text |-> keys.source_text,
     source_pericope |-> keys.source_pericope,
     book |-> keys.book,
     chapter |-> keys.chapter,
     verse_raw |-> keys.verse_raw,
     direct_ref |-> choice.direct_ref,
     selected |-> choice.selected,
     method |-> repair.method,
     confidence |-> repair.confidence,
     low_confidence |-> repair.low_confidence,
     repaired_text |-> repair.repaired_text,
     normalized_text |-> normalized_text,
     aligned_text |->
         IF choice.direct_ref # NoRow
         THEN normalize_punctuation_spacing(
                  trim_low_confidence_tail(normalized_text, choice.direct_ref.text))
         ELSE normalized_text,
     aligned_pericope |-> PericopeFinal(repair.repaired_pericope, hyphen_lookup)]

\* lines 879-883 on the repaired text
RowWithRepair(keys, choice, repair, hyphen_lookup) ==
    RowAligned(keys, choice, repair,
               FinalNormalizations(repair.repaired_text, hyphen_lookup), hyphen_lookup)

\* lines 844-856: method, and low_confidence as the test of line 858 for a
\* fallback row
RowWithChoice(keys, choice, lexicon, hyphen_lookup, args, zipf) ==
    RowWithRepair(keys, choice,
                  RowRepair(keys, choice, RowMethod(choice.chosen),
                            /\ RowMethod(choice.chosen) = "fallback"
                            /\ RatioLt(choice.chosen.ratio, args.min_neighbor_ratio),
                            lexicon, zipf),
                  hyphen_lookup)

\* lines 820-831: chapter_index and verse_num
RowWithKeys(keys, tb1_index, lexicon, hyphen_lookup, args, zipf) ==
    RowWithChoice(keys,
                  RowChoice(keys, ChapterGet(tb1_index, keys.book, keys.chapter),
                            VerseNum(keys.verse_raw), args),
                  lexicon, hyphen_lookup, args, zipf)

\* the values of the local variables of one iteration of the for loop of
\* main (lines 809-897): repaired_text is aligned_text at line 878,
\* normalized_text is aligned_text at line 884, and aligned_text and
\* aligned_pericope are the values written to the output row
process_row(row, tb1_index, lexicon, hyphen_lookup, args, zipf) ==
    RowWithKeys(RowKeys(row), tb1_index, lexicon, hyphen_lookup, args, zipf)

\* Stats()
NoStats ==
    [rows_total |-> 0, rows_changed |-> 0, rows_alignment_same_verse |-> 0,
     rows_alignment_neighbor |-> 0, rows_fallback |-> 0,
     low_confidence_rows |-> 0, short_runs_before |-> 0, short_runs_after |-> 0]

\* the counters without the branch that counts a neighbour alignment
CountRow_NoNeighbor(stats, r) ==
    LET Plus(flag) == IF flag THEN 1 ELSE 0
    IN  [rows_total |-> stats.rows_total + 1,
         rows_changed |->
             stats.rows_changed
             + Plus(r.aligned_text # r.source_text
                    \/ r.aligned_pericope # r.source_pericope),
         rows_alignment_same_verse |->
             stats.rows_alignment_same_verse + Plus(r.method = "alignment_same"),
         rows_alignment_neighbor |-> stats.rows_alignment_neighbor,
         rows_fallback |-> stats.rows_fallback + Plus(r.method = "fallback"),
         low_confidence_rows |-> stats.low_confidence_rows + Plus(r.low_confidence),
         short_runs_before |->
             stats.short_runs_before + CountShortRuns(r.source_text, 0),
         short_runs_after |->
             stats.short_runs_after + CountShortRuns(r.aligned_text, 0)]

\* the counters after a row whose local variables are r
CountRow(stats, r) ==
    LET Plus(flag) == IF flag THEN 1 ELSE 0
    IN  [rows_total |-> stats.rows_total + 1,
         rows_changed |->
             stats.rows_changed
             + Plus(r.aligned_text # r.source_text
                    \/ r.aligned_pericope # r.source_pericope),
         rows_alignment_same_verse |->
             stats.rows_alignment_same_verse + Plus(r.method = "alignment_same"),
         rows_alignment_neighbor |->
             stats.rows_alignment_neighbor + Plus(r.method = "alignment_neighbor"),
         rows_fallback |-> stats.rows_fallback + Plus(r.method = "fallback"),
         low_confidence_rows |-> stats.low_confidence_rows + Plus(r.low_confidence),
         short_runs_before |->
             stats.short_runs_before + CountShortRuns(r.source_text, 0),
         short_runs_after |->
             stats.short_runs_after + CountShortRuns(r.aligned_text, 0)]

\* the entry appended to examples for a changed row
ChangedExample(r) ==
    [book |-> r.book, chapter |-> r.chapter, verse |-> r.verse_raw,
     method |-> r.method, ratio |-> Round4(r.confidence),
     before |-> Slice(r.source_text, 0, 240),
     after |-> Slice(r.aligned_text, 0, 240)]

\* the entry appended to low_confidence_examples; its after is aligned_text
\* at line 870
LowConfidenceExample(r) ==
    [book |-> r.book, chapter |-> r.chapter, verse |-> r.verse_raw,
     ratio |-> Round4(r.confidence),
     before |-> Slice(r.source_text, 0, 220),
     after |-> Slice(r.repaired_text, 0, 220)]

-----------------------------------------------------------------------------
(* Calls of project_boundaries                                             *)

MaxTb2Len == 4
MaxRefLen == 3

\* "ke pada ku ber kata" and "kepadaku berkata"
ScenarioA_tb2 == <<"k","e"," ","p","a","d","a"," ","k","u"," ",
                   "b","e","r"," ","k","a","t","a">>
ScenarioA_ref == <<"k","e","p","a","d","a","k","u"," ",
                   "b","e","r","k","a","t","a">>

Tb2Texts ==
    SeqsUpTo({"a", "b", " ", ","}, MaxTb2Len)
    \cup {ScenarioA_tb2,
          <<"A"," ","b"," ","-"," ","a">>,
          <<"a","-"," ","b","\n","a",".">>,
          <<"a"," ","a"," ","x"," ","y">>,
          <<"x"," ","y">>}

RefTexts ==
    SeqsUpTo({"a", "b", " "}, MaxRefLen)
    \cup {ScenarioA_ref,
          <<"a","b"," ","-"," ","a">>,
          <<"A","b",","," ","a">>}

InitProject ==
    /\ pc = "call"
    /\ call \in {[fn |-> "project_boundaries", tb2_text |-> t, ref_text |-> r] :
                    t \in Tb2Texts, r \in RefTexts}
    /\ ret = NoValue

CallProject ==
    /\ pc = "call"
    /\ call.fn = "project_boundaries"
    /\ ret' = project_boundaries(call.tb2_text, call.ref_text)
    /\ pc' = "return"
    /\ UNCHANGED call

SpecProject == InitProject /\ [][CallProject]_vars

Projected == pc = "return" /\ call.fn = "project_boundaries"

IsNotSpaceChar(c) == ~IsSpaceChar(c)

\* out is text with some of its all-whitespace tokens deleted
DeletesOnlyWhitespaceTokens(text, out) ==
    LET tokens == split_tokens(text)
        blank == {i \in 1..Len(tokens) : IsSpace(tokens[i])}
    IN  \E D \in SUBSET blank :
            out = Join([i \in 1..Len(tokens) |->
                           IF i \in D THEN <<>> ELSE tokens[i]])

\* C1: the output of project_boundaries is the corrupted input with zero or
\* more whitespace tokens deleted, so the non-whitespace characters of the
\* input appear in the output in the same order.
C1_OnlyWhitespaceRemoved ==
    Projected =>
        /\ DeletesOnlyWhitespaceTokens(call.tb2_text, ret)
        /\ SelectSeq(ret, IsNotSpaceChar) = SelectSeq(call.tb2_text, IsNotSpaceChar)

\* the gap after word i of the corrupted text maps nowhere: neither the
\* offset before it nor the offset after it lies in a matching block
Unmappable(s2, sr, i) ==
    LET blocks == get_matching_blocks(s2.stream, sr.stream)
        InBlock(p) == \E m \in blocks : m[1] <= p /\ p < m[1] + m[3]
    IN  ~InBlock(s2.boundaries[i] - 1) /\ ~InBlock(s2.boundaries[i])

SharesNoLetter(a, b) ==
    \A i \in 1..Len(a) : \A j \in 1..Len(b) : a[i] # b[j]

\* C6: project_boundaries keeps every gap that cannot be mapped into the
\* reference stream; when the two letter streams share no letter, or one of
\* them is empty, the output is the corrupted text unchanged.
C6_UnmappableGapsKept ==
    Projected =>
        LET s2 == build_stream(call.tb2_text)
            sr == build_stream(call.ref_text)
            out == build_stream(ret)
            gaps == 1..(Len(s2.words) - 1)
        IN  /\ (s2.stream # <<>> /\ sr.stream # <<>>) =>
                   \A i \in gaps :
                       Unmappable(s2, sr, i) =>
                           /\ KeepSpaceAfterWord(s2, sr)[i]
                           /\ \E w \in 1..Len(out.words) :
                                  out.boundaries[w] = s2.boundaries[i]
            /\ (\A i \in gaps : Unmappable(s2, sr, i)) => ret = call.tb2_text
            /\ (s2.stream = <<>> \/ sr.stream = <<>>
                \/ SharesNoLetter(s2.stream, sr.stream)) => ret = call.tb2_text

\* a text in which one gap is merged and another, unmappable, gap is kept
C6_Witness ==
    /\ Projected
    /\ ret # call.tb2_text
    /\ LET s2 == build_stream(call.tb2_text)
           sr == build_stream(call.ref_text)
       IN  \E i \in 1..(Len(s2.words) - 1) :
               /\ Unmappable(s2, sr, i)
               /\ Len(split_tokens(ret)) < Len(s2.tokens)
               /\ build_stream(ret).words[Len(build_stream(ret).words)]
                      = s2.words[Len(s2.words)]

\* letters separated by single spaces, no space at either end
IsSpaceSeparatedWords(text) ==
    /\ text # <<>>
    /\ \A i \in 1..Len(text) : text[i] \in LowerLetters \/ text[i] = " "
    /\ text[1] # " " /\ text[Len(text)] # " "
    /\ \A i \in 1..(Len(text) - 1) : ~(text[i] = " " /\ text[i + 1] = " ")

\* C7: when the corrupted text is space-separated words whose letter stream
\* equals the reference's and every word boundary of the reference falls at a
\* gap of the corrupted text, project_boundaries returns the reference's
\* segmentation: the same word ends, and the reference text itself when the
\* reference is space-separated words too.
C7_ProjectsReferenceSegmentation ==
    Projected =>
        LET s2 == build_stream(call.tb2_text)
            sr == build_stream(call.ref_text)
            out == build_stream(ret)
            Ends(s) == {s.boundaries[i] : i \in 1..Len(s.boundaries)}
        IN  (/\ IsSpaceSeparatedWords(call.tb2_text)
             /\ s2.stream = sr.stream
             /\ sr.boundary_set \subseteq Ends(s2)) =>
                /\ Ends(out) = Ends(sr)
                /\ out.stream = sr.stream
                /\ IsSpaceSeparatedWords(call.ref_text) => ret = call.ref_text

\* scenario A: "ke pada ku ber kata" against "kepadaku berkata"
C7_Witness ==
    /\ Projected
    /\ call.tb2_text = ScenarioA_tb2
    /\ call.ref_text = ScenarioA_ref
    /\ ret = ScenarioA_ref

-----------------------------------------------------------------------------
(* Calls of choose_reference                                               *)

\* reference verses run from 0 (index_tb1_rows keeps any verse int() parses)
\* to MaxRefVerse; the requested verse runs over the same numbers
MaxRefVerse == 3
MaxWindow == 2

\* letter streams short enough for their ratios to hit the thresholds
ChooseStreams == {<<"a">>, <<"a","b">>, <<"b","a">>}

DirectThresholds == {<<1, 2>>, <<2, 3>>, <<82, 100>>}
NeighborThresholds == {<<1, 2>>, <<82, 100>>}

\* every chapter index: a subset of the verses, each with one of the streams
ChapterIndexes ==
    UNION {[V -> ChooseStreams] : V \in SUBSET (0..MaxRefVerse)}

RowsOf(index) == [v \in DOMAIN index |-> RowRef(v, index[v])]

InitChoose ==
    /\ pc = "call"
    /\ call \in {[fn |-> "choose_reference", tb2_norm |-> <<"a","b">>,
                  ref_rows |-> RowsOf(ix), verse |-> v,
                  min_direct_ratio |-> d, min_neighbor_ratio |-> n,
                  neighbor_window |-> w] :
                    ix \in ChapterIndexes, v \in 0..MaxRefVerse,
                    d \in DirectThresholds, n \in NeighborThresholds,
                    w \in 0..MaxWindow}
    /\ ret = NoValue

CallChoose ==
    /\ pc = "call"
    /\ call.fn = "choose_reference"
    /\ ret' = choose_reference(call.tb2_norm, call.ref_rows, call.verse,
                               call.min_direct_ratio, call.min_neighbor_ratio,
                               call.neighbor_window)
    /\ pc' = "return"
    /\ UNCHANGED call

SpecChoose == InitChoose /\ [][CallChoose]_vars

Chosen == pc = "return" /\ call.fn = "choose_reference"

\* the ratio of the unit at verse v of the call's chapter, 0 when absent
RatioAt(v) ==
    IF v \in DOMAIN call.ref_rows
    THEN sequence_ratio(call.tb2_norm, call.ref_rows[v].normalized)
    ELSE <<0, 1>>

\* C3: a direct unit whose ratio is at least minDirectRatio is returned with
\* mode same, whatever the ratios of the neighbouring verses.
C3_DirectShortCircuits ==
    Chosen =>
        ((call.verse \in DOMAIN call.ref_rows
          /\ RatioGeq(RatioAt(call.verse), call.min_direct_ratio)) =>
            /\ ret.ref = call.ref_rows[call.verse]
            /\ ret.mode = "same"
            /\ ret.ratio = RatioAt(call.verse))

\* the direct ratio equals minDirectRatio exactly and a neighbour in the
\* window has a strictly higher ratio; the direct unit is returned
C3_Witness ==
    /\ Chosen
    /\ call.verse \in DOMAIN call.ref_rows
    /\ RatioAt(call.verse)[1] * call.min_direct_ratio[2]
           = call.min_direct_ratio[1] * RatioAt(call.verse)[2]
    /\ \E v \in DOMAIN call.ref_rows :
           /\ v # call.verse
           /\ v >= call.verse - call.neighbor_window
           /\ v <= call.verse + call.neighbor_window
           /\ RatioGt(RatioAt(v), RatioAt(call.verse))
    /\ ret.mode = "same"
    /\ ret.ref = call.ref_rows[call.verse]

\* the neighbour rule over the verses lo..hi: when the direct ratio is below
\* minDirectRatio and the best ratio of the existing units in lo..hi other
\* than the direct verse exceeds the direct ratio and is at least
\* minNeighborRatio, a unit attaining that best ratio is returned as neighbor
NeighborRule(lo, hi) ==
    LET N == {v \in DOMAIN call.ref_rows : v # call.verse /\ lo <= v /\ v <= hi}
    IN  (/\ RatioLt(RatioAt(call.verse), call.min_direct_ratio)
         /\ \E m \in N :
                /\ \A v \in N : RatioGeq(RatioAt(m), RatioAt(v))
                /\ RatioGt(RatioAt(m), RatioAt(call.verse))
                /\ RatioGeq(RatioAt(m), call.min_neighbor_ratio)) =>
            /\ ret.mode = "neighbor"
            /\ ret.ref \in {call.ref_rows[v] : v \in N}
            /\ \A v \in N : RatioGeq(ret.ratio, RatioAt(v))
            /\ ret.ratio = RatioAt(ret.ref.verse)

\* C4 as stated: the neighbours are the existing units of
\* [verse - window, verse + window] other than the direct verse.
C4_NeighborsWholeWindow ==
    Chosen => NeighborRule(call.verse - call.neighbor_window,
                           call.verse + call.neighbor_window)

\* C4 amended: the neighbours are the existing units of
\* [max(1, verse - window), verse + window] other than the direct verse.
C4_NeighborsFromVerseOne ==
    Chosen => NeighborRule(Max(1, call.verse - call.neighbor_window),
                           call.verse + call.neighbor_window)

\* a neighbour at the far end of the window is returned
C4_Witness ==
    /\ Chosen
    /\ call.neighbor_window > 0
    /\ RatioLt(RatioAt(call.verse), call.min_direct_ratio)
    /\ ret.mode = "neighbor"
    /\ ret.ref.verse = call.verse + call.neighbor_window

-----------------------------------------------------------------------------
(* Calls of fallback_merge_words and merge_run                             *)

MaxRunLen == 4

\* the tokens of the runs, the words a lexicon may hold and their counts
FallbackTokens == {<<"d","i">>, <<"r","i">>, <<"n","y","a">>}
LexWords == {<<"d","i","r","i">>, <<"r","i","n","y","a">>, <<"d","i","r","i","n","y","a">>}
LexCounts == {0, 1, 999}

\* the whole word is absent, rare or frequent, its parts absent or frequent
Lexicons ==
    {l \in [LexWords -> LexCounts] :
        \A w \in LexWords \ {<<"d","i","r","i","n","y","a">>} : l[w] # 1}

\* scenario B: the lexicon {"dirinya": 50}
ScenarioB_lexicon == (<<"d","i","r","i","n","y","a">> :> 50)

\* wordfreq absent, or present with one of a few tables
ZipfTables ==
    {NoZipf,
     [avail |-> TRUE, z |-> (<<"r","i">> :> 5600)],
     [avail |-> TRUE, z |-> (<<"d","i">> :> 6500 @@ <<"n","y","a">> :> 6000 @@ <<"d","i","r","i">> :> 4800)],
     [avail |-> TRUE, z |-> (<<"r","i","n","y","a">> :> 5000 @@ <<"d","i","r","i","n","y","a">> :> 4600)]}

ImportTokens == {<<"a","l">>, <<"l","a","h">>, <<"t","o">>, <<"b","i","t">>}

ImportZipfTables ==
    {NoZipf,
     [avail |-> TRUE, z |-> (<<"a","l","l","a","h">> :> 5600 @@ <<"a","l">> :> 4000)],
     [avail |-> TRUE, z |-> (<<"t","o">> :> 6000 @@ <<"t","o","b","i","t">> :> 2000 @@ <<"l","a","h","t","o">> :> 3000)]}

MaxGroups == {2, DEFAULT_MAX_GROUP}
ImportMaxGroups == {2, IMPORT_DEFAULT_MAX_GROUP}

InitFallback ==
    /\ pc = "call"
    /\ call \in {[fn |-> "fallback_merge_words", words |-> w, lexicon |-> l,
                  zipf |-> z, max_group |-> g] :
                    w \in SeqsUpTo(FallbackTokens, MaxRunLen),
                    l \in Lexicons \cup {ScenarioB_lexicon},
                    z \in ZipfTables, g \in MaxGroups}
             \cup
                {[fn |-> "merge_run", words |-> w, zipf |-> z, max_group |-> g] :
                    w \in SeqsUpTo(ImportTokens, MaxRunLen),
                    z \in ImportZipfTables, g \in ImportMaxGroups}
    /\ ret = NoValue

CallFallbackMerge ==
    /\ pc = "call"
    /\ call.fn = "fallback_merge_words"
    /\ ret' = fallback_merge_words(call.words, call.lexicon, call.zipf,
                                   call.max_group)
    /\ pc' = "return"
    /\ UNCHANGED call

CallMergeRun ==
    /\ pc = "call"
    /\ call.fn = "merge_run"
    /\ ret' = merge_run(call.words, call.zipf, call.max_group).text
    /\ pc' = "return"
    /\ UNCHANGED call

NextFallback == CallFallbackMerge \/ CallMergeRun

SpecFallback == InitFallback /\ [][NextFallback]_vars

Merged == pc = "return" /\ call.fn \in {"fallback_merge_words", "merge_run"}

\* the words of a text of words separated by single spaces
RECURSIVE SplitOnSpace(_, _)
SplitOnSpace(text, word) ==
    IF text = <<>> THEN (IF word = <<>> THEN <<>> ELSE <<word>>)
    ELSE IF text[1] = " "
    THEN (IF word = <<>> THEN <<>> ELSE <<word>>) \o SplitOnSpace(Tail(text), <<>>)
    ELSE SplitOnSpace(Tail(text), Append(word, text[1]))

\* the group lengths that turn the run words into the output groups
RECURSIVE PlanOfGroups(_, _)
PlanOfGroups(words, groups) ==
    IF groups = <<>> \/ words = <<>> THEN <<>>
    ELSE LET k == CHOOSE j \in 1..Len(words) :
                      /\ Len(Join(Slice(words, 0, j))) >= Len(groups[1])
                      /\ \A h \in 1..(j - 1) :
                             Len(Join(Slice(words, 0, h))) < Len(groups[1])
         IN  <<k>> \o PlanOfGroups(Slice(words, k, Len(words)), Tail(groups))

\* the partition the returned text shows
ReturnedPlan == PlanOfGroups(call.words, SplitOnSpace(ret, <<>>))

\* every list of group lengths 1..g that adds up to n
RECURSIVE Partitions(_, _)
Partitions(n, g) ==
    IF n = 0 THEN {<<>>}
    ELSE UNION {{<<k>> \o p : p \in Partitions(n - k, g)} : k \in 1..Min(g, n)}

\* the score of the group words[i:i+k] under the scoring of the call, and
\* whether the call's DP skips that group as rejected
CallGroupScore(i, k) ==
    IF call.fn = "merge_run"
    THEN group_score(Slice(call.words, i, i + k), call.zipf)
    ELSE fallback_group_score(Slice(call.words, i, i + k), call.lexicon, call.zipf)

CallRejects(score) ==
    IF call.fn = "merge_run" THEN score <= -9999000 ELSE score <= -9990000

RECURSIVE PlanTotal(_, _)
PlanTotal(plan, i) ==
    IF plan = <<>> THEN 0
    ELSE CallGroupScore(i, plan[1]) + PlanTotal(Tail(plan), i + plan[1])

RECURSIVE PlanValid(_, _)
PlanValid(plan, i) ==
    plan = <<>>
    \/ (/\ ~CallRejects(CallGroupScore(i, plan[1]))
        /\ PlanValid(Tail(plan), i + plan[1]))

\* C2: the partition the fallback DP chooses scores at least as much, in
\* total, as every partition of the run into contiguous, non-rejected groups
\* of 1..max_group tokens.
C2_DPOptimal ==
    (Merged /\ Len(call.words) >= 2) =>
        /\ GroupsOf(call.words, ReturnedPlan) = SplitOnSpace(ret, <<>>)
        /\ \A p \in Partitions(Len(call.words), call.max_group) :
               PlanValid(p, 0) => PlanTotal(ReturnedPlan, 0) >= PlanTotal(p, 0)

\* the DP keeps the first token alone and merges later ones although merging
\* the first two tokens is a valid, lower-scoring start
C2_Witness ==
    /\ Merged
    /\ call.fn = "fallback_merge_words"
    /\ Len(call.words) >= 3
    /\ ReturnedPlan[1] = 1
    /\ \E j \in 2..Len(ReturnedPlan) : ReturnedPlan[j] >= 2
    /\ \E p \in Partitions(Len(call.words), call.max_group) :
           /\ PlanValid(p, 0)
           /\ p[1] = 2
           /\ CallGroupScore(0, 2) > CallGroupScore(0, 1)
           /\ PlanTotal(p, 0) < PlanTotal(ReturnedPlan, 0)

-----------------------------------------------------------------------------
(* Calls of fallback_clean_text                                            *)

MaxTextTokens == 3

\* scenario B: "di ri nya"
ScenarioB_text == <<"d","i"," ","r","i"," ","n","y","a">>

\* runs of tokens separated by single spaces, or by a comma and a space
FallbackTexts ==
    {JoinWith(<<" ">>, w) : w \in SeqsUpTo(FallbackTokens, MaxTextTokens)}
    \cup {JoinWith(<<",", " ">>, w) : w \in SeqsUpTo(FallbackTokens, MaxTextTokens)}
    \cup {ScenarioB_text}

InitFallbackText ==
    /\ pc = "call"
    /\ call \in {[fn |-> "fallback_clean_text", text |-> t, lexicon |-> l,
                  zipf |-> z] :
                    t \in FallbackTexts,
                    l \in Lexicons \cup {ScenarioB_lexicon},
                    z \in ZipfTables}
    /\ ret = NoValue

CallFallbackText ==
    /\ pc = "call"
    /\ call.fn = "fallback_clean_text"
    /\ ret' = fallback_clean_text(call.text, call.lexicon, call.zipf)
    /\ pc' = "return"
    /\ UNCHANGED call

SpecFallbackText == InitFallbackText /\ [][CallFallbackText]_vars

Cleaned == pc = "return" /\ call.fn = "fallback_clean_text"

\* the tokens of the call's text when it is one run of two to max_group
\* tokens separated by single spaces, <<>> otherwise
RunOfCall ==
    LET words == SplitOnSpace(call.text, <<>>)
    IN  IF /\ Len(words) >= 2
           /\ Len(words) <= DEFAULT_MAX_GROUP
           /\ call.text = JoinWith(<<" ">>, words)
           /\ \A i \in 1..Len(words) : is_word_token(words[i])
        THEN words ELSE <<>>

\* the merged word is in the lexicon and its score passes the comparison
\* with the split score and the confidence floor
ClearsBothTests(tokens, lexicon, zipf) ==
    LET merged_score == token_score(Join(tokens), lexicon, zipf)
    IN  /\ LexGet(lexicon, Lowered(Join(tokens))) > 0
        /\ merged_score + 800 * (Len(tokens) - 1)
               >= SumTokenScores(tokens, lexicon, zipf) - 200
        /\ merged_score >= 500

\* a token that is neither in the lexicon nor scored by wordfreq
UnattestedFragment(token, lexicon, zipf) ==
    /\ LexGet(lexicon, Lowered(token)) = 0
    /\ token_score(token, lexicon, zipf) < 0

\* the case of C8: a run whose tokens are unattested fragments and whose
\* concatenation is an attested word that passes both tests
MergeCase ==
    /\ Cleaned
    /\ RunOfCall # <<>>
    /\ ClearsBothTests(RunOfCall, call.lexicon, call.zipf)
    /\ \A i \in 1..Len(RunOfCall) :
           UnattestedFragment(RunOfCall[i], call.lexicon, call.zipf)

\* C8 as stated: in that case the fallback emits the single merged word.
C8_MergedWordEmitted == MergeCase => ret = Join(RunOfCall)

\* no shorter run of two or more adjacent tokens is accepted as a group
NoShorterMerge ==
    \A i \in 0..(Len(RunOfCall) - 2) :
        \A k \in 2..(Len(RunOfCall) - i) :
            k < Len(RunOfCall) =>
                fallback_group_score(Slice(RunOfCall, i, i + k),
                                     call.lexicon, call.zipf) <= -9990000

\* C8 amended: in that case, when moreover no shorter run of two or more
\* adjacent tokens of the run is accepted as a group, the fallback emits the
\* single merged word.
C8_MergedWordEmittedUnlessShorterMerge ==
    (MergeCase /\ NoShorterMerge) => ret = Join(RunOfCall)

\* scenario B: "di ri nya" with the lexicon {"dirinya": 50} gives "dirinya"
C8_Witness ==
    /\ MergeCase
    /\ NoShorterMerge
    /\ call.text = ScenarioB_text
    /\ call.lexicon = ScenarioB_lexicon
    /\ ret = <<"d","i","r","i","n","y","a">>

-----------------------------------------------------------------------------
(* Calls of trim_low_confidence_tail                                       *)

MaxTrimLen == 6
MaxTrimRef == 3

\* the reference texts: 0..MaxTrimRef letters
TrimRefs == {[i \in 1..n |-> "b"] : n \in 0..MaxTrimRef}

TrimTexts ==
    SeqsUpTo({"a", ".", " "}, MaxTrimLen)
    \cup {<<"a","a","!"," ","a","?"," ","a","a",".","a">>, <<" ","a",".","a"," ">>}

InitTrim ==
    /\ pc = "call"
    /\ call \in {[fn |-> "trim_low_confidence_tail", text |-> t,
                  reference_text |-> r] : t \in TrimTexts, r \in TrimRefs}
    /\ ret = NoValue

CallTrim ==
    /\ pc = "call"
    /\ call.fn = "trim_low_confidence_tail"
    /\ ret' = trim_low_confidence_tail(call.text, call.reference_text)
    /\ pc' = "return"
    /\ UNCHANGED call

SpecTrim == InitTrim /\ [][CallTrim]_vars

Trimmed == pc = "return" /\ call.fn = "trim_low_confidence_tail"

IsPrefix(p, s) == Len(p) <= Len(s) /\ p = SubSeq(s, 1, Len(p))

\* the sentence-ending marks of the stripped text of the call, as pairs of
\* the offset after the mark and the letters up to it
MarksOfCall ==
    LET ends == SentenceEnds(Strip(call.text), 0, 0)
    IN  {ends[i] : i \in 1..Len(ends)}

RefLettersOfCall == Len(normalize_letters(call.reference_text))
TextLettersOfCall == Len(normalize_letters(call.text))

\* the letters of a mark lie in [0.65, 1.55] times the reference's letters
InExactBand(mark) ==
    /\ 65 * RefLettersOfCall <= 100 * mark[2]
    /\ 100 * mark[2] <= 155 * RefLettersOfCall

\* the same with both ends of the band truncated to integers
InTruncatedBand(mark) ==
    /\ TimesBandLow(RefLettersOfCall) <= mark[2]
    /\ mark[2] <= TimesBandHigh(RefLettersOfCall)

\* C10 as stated: when the letters of the text exceed 1.35 times the
\* reference's letters and some sentence-ending mark lies in the band
\* [0.65, 1.55] times the reference's letters, the result is the prefix that
\* ends at the mark of the band closest to the reference's letters; the
\* result is always a prefix of the stripped input.
C10_TrimsAtClosestMarkInBand ==
    Trimmed =>
        /\ IsPrefix(ret, Strip(call.text))
        /\ (/\ 100 * TextLettersOfCall > 135 * RefLettersOfCall
            /\ \E m \in MarksOfCall : InExactBand(m)) =>
               \E m \in MarksOfCall :
                   /\ InExactBand(m)
                   /\ \A o \in MarksOfCall :
                          InExactBand(o) =>
                              Abs(m[2] - RefLettersOfCall)
                                  <= Abs(o[2] - RefLettersOfCall)
                   /\ ret = Slice(Strip(call.text), 0, m[1])

\* C10 amended: when the reference has a letter, the letters of the text
\* exceed 1.35 times the reference's letters and some sentence-ending mark
\* lies in the band [int(0.65 r), int(1.55 r)] of the reference's letters r,
\* the result is the prefix that ends at the mark of that band closest to r,
\* the earliest one among equally close marks; the result is always a prefix
\* of the stripped input.
C10_TrimsAtClosestMarkInTruncatedBand ==
    Trimmed =>
        /\ IsPrefix(ret, Strip(call.text))
        /\ (/\ RefLettersOfCall >= 1
            /\ 100 * TextLettersOfCall > 135 * RefLettersOfCall
            /\ \E m \in MarksOfCall : InTruncatedBand(m)) =>
               \E m \in MarksOfCall :
                   /\ InTruncatedBand(m)
                   /\ \A o \in MarksOfCall :
                          InTruncatedBand(o) =>
                              \/ Abs(m[2] - RefLettersOfCall)
                                     < Abs(o[2] - RefLettersOfCall)
                              \/ /\ Abs(m[2] - RefLettersOfCall)
                                        = Abs(o[2] - RefLettersOfCall)
                                 /\ m[1] <= o[1]
                   /\ ret = Slice(Strip(call.text), 0, m[1])

\* a text is cut at the earlier of two equally close marks, and loses text
C10_Witness ==
    /\ Trimmed
    /\ RefLettersOfCall >= 1
    /\ 100 * TextLettersOfCall > 135 * RefLettersOfCall
    /\ Len(ret) < Len(Strip(call.text))
    /\ \E m \in MarksOfCall : \E o \in MarksOfCall :
           /\ InTruncatedBand(m) /\ InTruncatedBand(o)
           /\ m[1] < o[1]
           /\ Abs(m[2] - RefLettersOfCall) = Abs(o[2] - RefLettersOfCall)
           /\ ret = Slice(Strip(call.text), 0, m[1])

-----------------------------------------------------------------------------
(* Calls of remove_cross_reference_noise                                   *)

MaxCitationRefs == 2
MaxNoisePieces == 3

CitationBooks == {<<"K","e","j">>, <<"M","a","t",".">>, <<"1","S","a","m">>}
CitationRefs == {<<"1",":","1">>, <<"2",":","3">>, <<"1","2",":","3","-","4">>}
CitationSeparators == {<<";"," ">>, <<";">>, <<","," ">>}

\* parenthesised citation blocks with one book abbreviation and two or more
\* chapter:verse references, such as (Kej 1:1; 2:3)
CitationBlocks ==
    {<<"(">> \o book \o <<" ">> \o JoinWith(sep, refs) \o <<")">> :
        book \in CitationBooks, sep \in CitationSeparators,
        refs \in UNION {[1..n -> CitationRefs] : n \in 2..MaxCitationRefs}}

ScenarioC_text == <<"f","o","o"," ","(","K","e","j"," ","1",":","1",";"," ","2",":","3",")"," ","b","a","r">>

NoisePrefixes == {<<>>, <<"f","o","o"," ">>, <<"f","o","o">>, <<"a",";"," ">>}
NoiseSuffixes == {<<>>, <<" ","b","a","r">>, <<".">>, <<" ",";"," ","x">>}

NoisePieces ==
    {<<"K","e","j">>, <<"1",":","1">>, <<"2">>, <<"x">>, <<" ">>, <<";">>, <<"(">>, <<")">>, <<"-">>, <<"1",":","1",":","a","b">>}

NoiseTexts ==
    {pre \o block \o suf :
        pre \in NoisePrefixes, block \in CitationBlocks, suf \in NoiseSuffixes}
    \cup {Join(ps) : ps \in SeqsUpTo(NoisePieces, MaxNoisePieces)}
    \cup {<<"f","o","o"," ","(","K","e","j"," ","1",":","1",")"," ","b","a","r">>, <<"f","o","o"," ","(","1",":","1",";"," ","2",":","3",")"," ","b","a","r">>, <<"a"," ","("," ","1",":","1"," ",","," ","M","a","t","."," ","2",":","3"," ",")"," ","b">>}

InitNoise ==
    /\ pc = "call"
    /\ call \in {[fn |-> "remove_cross_reference_noise", text |-> t] : t \in NoiseTexts}
    /\ ret = NoValue

CallNoise ==
    /\ pc = "call"
    /\ call.fn = "remove_cross_reference_noise"
    /\ ret' = remove_cross_reference_noise(call.text)
    /\ pc' = "return"
    /\ UNCHANGED call

SpecNoise == InitNoise /\ [][CallNoise]_vars

NoiseRemoved == pc = "return" /\ call.fn = "remove_cross_reference_noise"

\* s contains sub as a substring
Contains(s, sub) ==
    \E p \in 0..(Len(s) - Len(sub)) : Slice(s, p, p + Len(sub)) = sub

IsParenthesis(c) == c \in {"(", ")"}

\* the text of the call is a citation block between a prefix and a suffix
\* that hold no parenthesis and no digit
CitationCase ==
    \E lp \in 0..(Len(call.text) - 1) : \E rp \in lp..(Len(call.text) - 1) :
        /\ Slice(call.text, lp, rp + 1) \in CitationBlocks
        /\ \A p \in (0..(lp - 1)) \cup ((rp + 1)..(Len(call.text) - 1)) :
               ~IsParenthesis(At(call.text, p)) /\ ~IsDigit(At(call.text, p))

\* C9 as stated: for a text with a parenthesised citation block of one book
\* abbreviation and two or more chapter:verse references, the result holds
\* nothing of the parenthetical (no parenthesis and no reference), no " ;"
\* and no double space.
C9_CitationBlockRemoved ==
    (NoiseRemoved /\ CitationCase) =>
        /\ \A i \in 1..Len(ret) : ~IsParenthesis(ret[i]) /\ ~IsDigit(ret[i])
        /\ ~Contains(ret, <<" ", ";">>)
        /\ ~Contains(ret, <<" ", " ">>)

\* scenario C keeps its opening parenthesis
C9_ScenarioC_DanglingParenthesis ==
    /\ NoiseRemoved
    /\ call.text = ScenarioC_text
    /\ ret = <<"f","o","o"," ","(","b","a","r">>

-----------------------------------------------------------------------------
(* Runs of main                                                            *)

MaxMainRows == 2

CsvFields ==
    <<"book_name", "grouping", "order_index", "chapter", "verse", "text", "pericope">>

CsvRow(book_name, chapter, verse, text, pericope) ==
    [book_name |-> book_name, grouping |-> <<"o","l","d">>, order_index |-> <<"7">>,
     chapter |-> chapter, verse |-> verse, text |-> text, pericope |-> pericope]

\* the reference table: verse 2 is a short unit in front of the unit that
\* the corrupted verse 2 really matches, and one row has no usable verse
Tb1Rows ==
    <<CsvRow(<<"K","e","j">>, <<"1">>, <<"1">>, <<"a","b"," ","c","d">>, <<>>),
      CsvRow(<<"K","e","j">>, <<"1">>, <<"2">>, <<"x","y">>, <<"a","n","a","k","-","a","n","a","k">>),
      CsvRow(<<"K","e","j">>, <<"1">>, <<"3">>, <<"x","y"," ","z","z"," ","q","q">>, <<>>),
      CsvRow(<<"K","e","j">>, <<"1">>, <<"x">>, <<"d","i">>, <<>>)>>

Tb1Tables == {<<>>, Tb1Rows}

Tb2Rows ==
    <<CsvRow(<<"K","e","j">>, <<"1">>, <<"2">>, <<"x","y","."," ","z","z"," "," ","q","q">>, <<"k","e"," ","p","a","d","a">>),
      CsvRow(<<"K","e","j">>, <<"1">>, <<"1">>, <<"a","b","."," ","c","d"," ","e","f">>, <<>>),
      CsvRow(<<"K","e","j">>, <<"1">>, <<"x">>, <<"d","i"," ","r","i"," ","n","y","a">>, <<>>),
      CsvRow(<<"M","a","t">>, <<"1">>, <<"1">>, <<"a"," ","(","K","e","j"," ","1",":","1",")">>, <<"a"," ","b"," ","c">>),
      CsvRow(<<"K","e","j">>, <<"1">>, <<"2">>, <<"p","."," ","q"," ","(","K","e","j"," ","1",":","1",")">>, <<"k","."," ","l","m">>),
      [verse |-> <<"1">>, text |-> <<"a","b"," ","c","d">>, note |-> <<"n">>]>>

\* the input files: some of the rows, in the order of the list
Tb2Tables ==
    {[k \in 1..Len(p) |-> Tb2Rows[p[k]]] :
        p \in {q \in SeqsUpTo(1..Len(Tb2Rows), MaxMainRows) :
                  \A k \in 1..(Len(q) - 1) : q[k] < q[k + 1]}}

DefaultArgs ==
    [min_direct_ratio |-> <<82, 100>>, min_neighbor_ratio |-> <<82, 100>>,
     neighbor_window |-> 6, preview_limit |-> 30]

MainArgs ==
    {DefaultArgs,
     [min_direct_ratio |-> <<1, 2>>, min_neighbor_ratio |-> <<1, 2>>,
      neighbor_window |-> 1, preview_limit |-> 1],
     [min_direct_ratio |-> <<82, 100>>, min_neighbor_ratio |-> <<1, 4>>,
      neighbor_window |-> 1, preview_limit |-> 1]}

InitMain ==
    /\ pc = "call"
    /\ call \in {[fn |-> "main", tb2_rows |-> rows, tb1_rows |-> table,
                  args |-> args, zipf |-> NoZipf] :
                    rows \in Tb2Tables,
                    table \in Tb1Tables, args \in MainArgs}
    /\ ret = NoValue

\* lines 795-806: the inputs are loaded and indexed
\* lines 800-806: the index, the lexicon and the empty lists of main
MainState(tb1_index, built) ==
    [tb1_index |-> tb1_index,
     lexicon |-> built.word_counter,
     hyphen_lookup |-> built.hyphen_lookup,
     output_rows |-> <<>>,
     stats |-> NoStats,
     examples |-> <<>>,
     low_confidence_examples |-> <<>>]

MainStart ==
    /\ pc = "call"
    /\ call.fn = "main"
    /\ ret' = MainState(index_tb1_rows(call.tb1_rows), build_tb1_lexicon(call.tb1_rows))
    /\ pc' = "rows"
    /\ UNCHANGED call

\* lines 808-914: one iteration of the for loop, for the row that follows
\* the rows already written to output_rows
\* the output row cut to the columns that write_rows writes
OutRow_CsvOnly(row, r) ==
    [field \in {CsvFields[k] : k \in 1..Len(CsvFields)} |->
        IF field = "text" THEN r.aligned_text
        ELSE IF field = "pericope" THEN r.aligned_pericope
        ELSE RowField(row, field)]

\* lines 810, 894-895: the output row
OutRow(row, r) ==
    [field \in DOMAIN row \cup {"text", "pericope"} |->
        IF field = "text" THEN r.aligned_text
        ELSE IF field = "pericope" THEN r.aligned_pericope
        ELSE row[field]]

\* line 899: the row counts as changed
RowChanged(r) ==
    \/ r.aligned_text # r.source_text
    \/ r.aligned_pericope # r.source_pericope

\* tb1_index[(book, chapter)] in place of get: the defaultdict inserts an
\* empty chapter for an absent key
IndexAfterGet_Subscript(index, book, chapter) ==
    IF <<book, chapter>> \in DOMAIN index THEN index
    ELSE (<<book, chapter>> :> <<>>) @@ index

\* line 820: tb1_index once tb1_index.get((book, chapter), {}) has run; get
\* inserts nothing, also for an absent key of the defaultdict
IndexAfterGet(index, book, chapter) == index

\* the lists and counters of main after the iteration for row, whose local
\* variables are r
AfterRow(state, row, r, preview_limit) ==
    [state EXCEPT
        !.tb1_index = IndexAfterGet(@, r.book, r.chapter),
        !.output_rows = Append(@, OutRow(row, r)),
        !.stats = CountRow(@, r),
        !.examples =
            IF RowChanged(r) /\ Len(@) < preview_limit
            THEN Append(@, ChangedExample(r)) ELSE @,
        !.low_confidence_examples =
            IF r.low_confidence /\ Len(@) < 30
            THEN Append(@, LowConfidenceExample(r)) ELSE @]

MainRow ==
    /\ pc = "rows"
    /\ call.fn = "main"
    /\ Len(ret.output_rows) < Len(call.tb2_rows)
    /\ ret' = AfterRow(ret, call.tb2_rows[Len(ret.output_rows) + 1],
                       process_row(call.tb2_rows[Len(ret.output_rows) + 1],
                                   ret.tb1_index, ret.lexicon, ret.hyphen_lookup,
                                   call.args, call.zipf),
                       call.args.preview_limit)
    /\ UNCHANGED <<pc, call>>

\* lines 916-946: the rows are written with the seven csv columns and the
\* summary is built
MainFinish ==
    /\ pc = "rows"
    /\ call.fn = "main"
    /\ Len(ret.output_rows) = Len(call.tb2_rows)
    /\ ret' = [out_csv |->
                   [i \in 1..Len(ret.output_rows) |->
                       [field \in {CsvFields[k] : k \in 1..Len(CsvFields)} |->
                           RowField(ret.output_rows[i], field)]],
               summary |->
                   [settings |-> [min_direct_ratio |-> call.args.min_direct_ratio,
                                  min_neighbor_ratio |-> call.args.min_neighbor_ratio,
                                  neighbor_window |-> call.args.neighbor_window],
                    rows |-> [total |-> ret.stats.rows_total,
                              changed |-> ret.stats.rows_changed,
                              alignment_same_verse |-> ret.stats.rows_alignment_same_verse,
                              alignment_neighbor |-> ret.stats.rows_alignment_neighbor,
                              fallback |-> ret.stats.rows_fallback,
                              low_confidence_rows |-> ret.stats.low_confidence_rows],
                    quality |-> [short_runs_before |-> ret.stats.short_runs_before,
                                 short_runs_after |-> ret.stats.short_runs_after],
                    examples |-> ret.examples,
                    low_confidence_examples |-> ret.low_confidence_examples]]
              @@ ret
    /\ pc' = "return"
    /\ UNCHANGED call

NextMain == MainStart \/ MainRow \/ MainFinish

SpecMain == InitMain /\ [][NextMain]_vars

\* the local variables of the iteration that wrote the i-th output row
RowLocals(i) ==
    process_row(call.tb2_rows[i], ret.tb1_index, ret.lexicon, ret.hyphen_lookup,
                call.args, call.zipf)

MainRunning == call.fn = "main" /\ pc \in {"rows", "return"}

\* C5 as stated: a row repaired by projection from a trusted reference (mode
\* same or neighbor), or with a confidence of at least min_neighbor_ratio,
\* is never truncated: its output text keeps every letter of the text that
\* the final normalizations hand to the tail trimming.
C5_TrimOnlyBelowNeighborThreshold ==
    MainRunning =>
        \A i \in 1..Len(ret.output_rows) :
            LET r == RowLocals(i)
            IN  (\/ r.method \in {"alignment_same", "alignment_neighbor"}
                 \/ RatioGeq(r.confidence, call.args.min_neighbor_ratio)) =>
                    normalize_letters(ret.output_rows[i].text)
                        = normalize_letters(r.normalized_text)

\* under the default thresholds a row aligned to a neighbour with ratio 1 is
\* cut to the length of the direct unit
C5_NeighborRowTruncated ==
    /\ MainRunning
    /\ call.args = DefaultArgs
    /\ \E i \in 1..Len(ret.output_rows) :
           /\ RowLocals(i).method = "alignment_neighbor"
           /\ RatioGeq(RowLocals(i).confidence, <<1, 1>>)
           /\ RowLocals(i).normalized_text = <<"x","y","."," ","z","z"," ","q","q">>
           /\ ret.output_rows[i].text = <<"x","y",".">>

-----------------------------------------------------------------------------
(* Rows without a usable reference                                         *)

\* the row with local variables r had no reference to select from: its
\* verse is no integer, or its chapter has no reference unit
NoReferenceFor(r) ==
    \/ ~IsIntLiteral(r.verse_raw)
    \/ DOMAIN ChapterGet(ret.tb1_index, r.book, r.chapter) = {}

\* C11: a row whose chapter has no reference unit, or whose verse is no
\* integer, is never handed to choose_reference or project_boundaries: it
\* gets the method fallback, its output row is written, and the text of that
\* row is the fallback text after the final normalizations.
C11_NoReferenceGoesToFallback ==
    MainRunning =>
        \A i \in 1..Len(ret.output_rows) :
            LET r == RowLocals(i)
            IN  NoReferenceFor(r) =>
                    /\ ~r.selected
                    /\ r.direct_ref = NoRow
                    /\ r.method = "fallback"
                    /\ r.repaired_text
                           = fallback_clean_text(r.source_text, ret.lexicon, call.zipf)
                    /\ ret.output_rows[i].text
                           = FinalNormalizations(r.repaired_text, ret.hyphen_lookup)

\* a finished run over a non-empty reference table that wrote a row with an
\* unparseable verse and a row of a chapter without reference units
C11_Witness ==
    /\ pc = "return"
    /\ call.tb1_rows # <<>>
    /\ Len(ret.output_rows) = Len(call.tb2_rows)
    /\ \E i \in 1..Len(ret.output_rows) : ~IsIntLiteral(RowLocals(i).verse_raw)
    /\ \E i \in 1..Len(ret.output_rows) :
           LET r == RowLocals(i)
           IN  IsIntLiteral(r.verse_raw) /\ NoReferenceFor(r)

-----------------------------------------------------------------------------
(* The segmentation plan                                                   *)

\* the group lengths the DP of the call reconstructs
CallPlan ==
    IF call.fn = "merge_run"
    THEN merge_run_plan(call.words, call.zipf, call.max_group)
    ELSE fallback_plan(call.words, call.lexicon, call.zipf, call.max_group)

RECURSIVE SumLens(_)
SumLens(plan) == IF plan = <<>> THEN 0 ELSE plan[1] + SumLens(Tail(plan))

\* C12: for every run of n >= 1 tokens the reconstructed plan is a list of
\* group lengths each in 1..max_group whose sum is n, and the returned text
\* is the groups that the plan cuts from the run, left to right: joined, the
\* returned groups spell the tokens of the run in their order, each once.
C12_PlanCoversRun ==
    (Merged /\ Len(call.words) >= 1) =>
        LET plan == CallPlan
            groups == SplitOnSpace(ret, <<>>)
        IN  /\ \A j \in 1..Len(plan) : plan[j] \in 1..call.max_group
            /\ SumLens(plan) = Len(call.words)
            /\ groups = GroupsOf(call.words, plan)
            /\ Join(groups) = Join(call.words)
            /\ PlanOfGroups(call.words, groups) = plan

\* a run of the longest length whose plan has a merged group after a group
\* of one token
C12_Witness ==
    /\ Merged
    /\ call.fn = "merge_run"
    /\ Len(call.words) = MaxRunLen
    /\ \E j \in 1..Len(CallPlan) :
           /\ CallPlan[j] >= 2
           /\ \E h \in 1..(j - 1) : CallPlan[h] = 1
    /\ SumLens(CallPlan) = MaxRunLen

-----------------------------------------------------------------------------
(* The rows that main emits                                                *)

-----------------------------------------------------------------------------
(* The shared state of a run                                               *)

\* C14: while the rows are processed and afterwards, the reference index,
\* the lexicon and the hyphen lookup are what index_tb1_rows and
\* build_tb1_lexicon built from the reference rows: no iteration adds,
\* removes or changes an entry, lookups of absent keys included; and every
\* output row is what its own input row yields with that shared state.
C14_SharedStateReadOnly ==
    MainRunning =>
        /\ ret.tb1_index = index_tb1_rows(call.tb1_rows)
        /\ ret.lexicon = build_tb1_lexicon(call.tb1_rows).word_counter
        /\ ret.hyphen_lookup = build_tb1_lexicon(call.tb1_rows).hyphen_lookup
        /\ \A i \in 1..Len(ret.output_rows) :
               ret.output_rows[i] = OutRow(call.tb2_rows[i], RowLocals(i))

\* the run is over, the index has chapters, one row looked up a chapter
\* that the index lacks and another a verse of a chapter that it has
C14_Witness ==
    /\ pc = "return"
    /\ DOMAIN ret.tb1_index # {}
    /\ Len(ret.output_rows) = MaxMainRows
    /\ \E i \in 1..Len(ret.output_rows) :
           LET row == call.tb2_rows[i]
           IN  <<Strip(RowField(row, "book_name")), Strip(RowField(row, "chapter"))>>
                   \notin DOMAIN ret.tb1_index
    /\ \E i \in 1..Len(ret.output_rows) :
           LET row == call.tb2_rows[i]
           IN  <<Strip(RowField(row, "book_name")), Strip(RowField(row, "chapter"))>>
                   \in DOMAIN ret.tb1_index

-----------------------------------------------------------------------------
(* Calls of normalize_spacing and normalize_punctuation_spacing            *)

MaxNormLen == 4

\* a letter, whitespace, a colon, quote marks, brackets, a full stop and
\* characters that the replace chain rewrites
NormChars == {"a", " ", ":", "\"", "(", ")", ".", "U+201D", "\r"}
NormTexts == SeqsUpTo(NormChars, MaxNormLen)

InitNormalize ==
    /\ pc = "call"
    /\ call \in {[fn |-> f, text |-> t] :
                    f \in {"normalize_spacing", "normalize_punctuation_spacing"},
                    t \in NormTexts}
    /\ ret = NoValue

CallNormalizeSpacing ==
    /\ pc = "call"
    /\ call.fn = "normalize_spacing"
    /\ ret' = normalize_spacing(call.text)
    /\ pc' = "return"
    /\ UNCHANGED call

CallNormalizePunctuation ==
    /\ pc = "call"
    /\ call.fn = "normalize_punctuation_spacing"
    /\ ret' = normalize_punctuation_spacing(call.text)
    /\ pc' = "return"
    /\ UNCHANGED call

NextNormalize == CallNormalizeSpacing \/ CallNormalizePunctuation

SpecNormalize == InitNormalize /\ [][NextNormalize]_vars

\* C15: normalize_spacing and normalize_punctuation_spacing are idempotent:
\* applied to its own result, each returns that result.
C15_NormalizersIdempotent ==
    /\ (pc = "return" /\ call.fn = "normalize_spacing") =>
           normalize_spacing(ret) = ret
    /\ (pc = "return" /\ call.fn = "normalize_punctuation_spacing") =>
           normalize_punctuation_spacing(ret) = ret

\* a text with a bracket, a colon and a quote mark separated by spaces that
\* normalize_punctuation_spacing rewrites beyond the whitespace collapse
C15_Witness ==
    /\ pc = "return"
    /\ call.fn = "normalize_punctuation_spacing"
    /\ call.text = <<"(", " ", ":", "\"">>
    /\ ret = <<"(", ":", " ", "\"">>
    /\ ret # normalize_spacing(call.text)

-----------------------------------------------------------------------------
(* Calls of sequence_ratio                                                 *)

MaxRatioLen == 3

RatioStreams == SeqsUpTo({"a", "b", "c"}, MaxRatioLen)

InitRatio ==
    /\ pc = "call"
    /\ call \in {[fn |-> "sequence_ratio", a |-> a, b |-> b] :
                    a \in RatioStreams, b \in RatioStreams}
    /\ ret = NoValue

CallSequenceRatio ==
    /\ pc = "call"
    /\ call.fn = "sequence_ratio"
    /\ ret' = sequence_ratio(call.a, call.b)
    /\ pc' = "return"
    /\ UNCHANGED call

SpecRatio == InitRatio /\ [][CallSequenceRatio]_vars

\* the blocks are runs common to a and b, one after the other in both
BlocksAreMatches(a, b, blocks) ==
    /\ \A m \in blocks :
           /\ m[3] >= 1
           /\ Slice(a, m[1], m[1] + m[3]) = Slice(b, m[2], m[2] + m[3])
    /\ \A m \in blocks : \A o \in blocks :
           m = o \/ (m[1] + m[3] <= o[1] /\ m[2] + m[3] <= o[2])
                 \/ (o[1] + o[3] <= m[1] /\ o[2] + o[3] <= m[2])

\* C16: the ratio is 2 * M / T, with M the total length of the matching
\* blocks (disjoint common runs, in order) and T the sum of the two
\* lengths; it lies in [0, 1], is 1 for two equal non-empty inputs and 0
\* when either input is empty.
C16_RatioBounds ==
    (pc = "return" /\ call.fn = "sequence_ratio") =>
        LET blocks == get_matching_blocks(call.a, call.b)
        IN  /\ ret[2] > 0
            /\ 0 <= ret[1] /\ ret[1] <= ret[2]
            /\ (call.a # <<>> /\ call.b # <<>>) =>
                   /\ BlocksAreMatches(call.a, call.b, blocks)
                   /\ ret = <<2 * SumSizes(blocks), Len(call.a) + Len(call.b)>>
            /\ (call.a = call.b /\ call.a # <<>>) => ret[1] = ret[2]
            /\ (call.a = <<>> \/ call.b = <<>>) => ret[1] = 0

\* two different inputs of the longest length with two matching blocks and
\* a ratio strictly between 0 and 1
C16_Witness ==
    /\ pc = "return"
    /\ call.fn = "sequence_ratio"
    /\ Len(call.a) = MaxRatioLen /\ Len(call.b) = MaxRatioLen
    /\ call.a # call.b
    /\ Cardinality(get_matching_blocks(call.a, call.b)) = 2
    /\ 0 < ret[1] /\ ret[1] < ret[2]

-----------------------------------------------------------------------------
(* The order of the post-processing steps                                  *)

\* lines 884-886: the tail trimming that follows the final normalizations
TrimLast(normalized_text, direct_ref) ==
    IF direct_ref # NoRow
    THEN normalize_punctuation_spacing(
             trim_low_confidence_tail(normalized_text, direct_ref.text))
    ELSE normalized_text

\* C17 as stated: the text of a fallback row is the output of the fallback
\* taken through the static phrase fixes, the suffix joining, the hyphen
\* restoration and the citation removal, in this order, with the tail
\* trimming last: no trimming runs ahead of the other steps.
C17_TrimmingRunsLast ==
    MainRunning =>
        \A i \in 1..Len(ret.output_rows) :
            LET r == RowLocals(i)
            IN  r.method = "fallback" =>
                    ret.output_rows[i].text
                        = TrimLast(FinalNormalizations(
                                       fallback_clean_text(r.source_text, ret.lexicon,
                                                           call.zipf),
                                       ret.hyphen_lookup),
                                   r.direct_ref)

-----------------------------------------------------------------------------
(* The pericope of a row                                                   *)

\* the text of the reference that choose_reference returns for the i-th
\* row, whose local variables are r
ChosenText(i, r) ==
    RowChoice(RowKeys(call.tb2_rows[i]),
              ChapterGet(ret.tb1_index, r.book, r.chapter),
              VerseNum(r.verse_raw), call.args).chosen.ref.text

\* the pericope taken along the path of the row: projected on the chosen
\* reference, or cleaned by the fallback
PericopeRepaired(i, r) ==
    IF r.method = "fallback"
    THEN fallback_clean_text(r.source_pericope, ret.lexicon, call.zipf)
    ELSE project_boundaries(r.source_pericope, ChosenText(i, r))

\* C18: a non-empty pericope goes through the path of its row (projection
\* on the chosen reference, or the fallback) and through the static fixes,
\* the suffix joining, the hyphen restoration and the citation removal, as
\* the text does, but it is never trimmed; an empty pericope stays empty.
C18_PericopeSamePathUntrimmed ==
    MainRunning =>
        \A i \in 1..Len(ret.output_rows) :
            With(RowLocals(i), LAMBDA r :
                IF r.source_pericope = <<>> THEN ret.output_rows[i].pericope = <<>>
                ELSE With(PericopeRepaired(i, r), LAMBDA repaired :
                     With(FinalNormalizations(repaired, ret.hyphen_lookup), LAMBDA final :
                         ret.output_rows[i].pericope = final)))

\* a low-confidence fallback row whose pericope the final normalizations do
\* not change, although the tail trimming of the text would cut it, and a
\* row whose pericope they change
C18_Witness ==
    /\ MainRunning
    /\ \E i \in 1..Len(ret.output_rows) :
           With(RowLocals(i), LAMBDA r :
               /\ r.method = "fallback"
               /\ r.low_confidence
               /\ r.direct_ref # NoRow
               /\ r.source_pericope # <<>>
               /\ ret.output_rows[i].pericope = r.source_pericope
               /\ trim_low_confidence_tail(r.source_pericope, r.direct_ref.text)
                      # r.source_pericope)
    /\ \E i \in 1..Len(ret.output_rows) :
           With(RowLocals(i), LAMBDA r :
               /\ r.source_pericope # <<>>
               /\ ret.output_rows[i].pericope # r.source_pericope)

\* C18 as stated: the pericope gets every step that the text of the row
\* gets, the tail trimming included.
C18_PericopeProcessedAsText ==
    MainRunning =>
        \A i \in 1..Len(ret.output_rows) :
            With(RowLocals(i), LAMBDA r :
                IF r.source_pericope = <<>> THEN ret.output_rows[i].pericope = <<>>
                ELSE With(PericopeRepaired(i, r), LAMBDA repaired :
                     With(IF r.method = "fallback"
                          THEN FallbackRepair(repaired, r.low_confidence, r.direct_ref)
                          ELSE repaired, LAMBDA trimmed :
                     With(FinalNormalizations(trimmed, ret.hyphen_lookup), LAMBDA final :
                         ret.output_rows[i].pericope = TrimLast(final, r.direct_ref)))))

-----------------------------------------------------------------------------
(* The confidence of an untrusted choice                                   *)

\* ratio is the largest of the direct ratio and the ratios of the existing
\* units of lo..hi other than the direct verse, 0 when there is none
BestRatioOf(ratio, lo, hi) ==
    LET C == {RatioAt(v) : v \in {w \in DOMAIN call.ref_rows :
                                      w = call.verse \/ (lo <= w /\ w <= hi)}}
             \cup {<<0, 1>>}
    IN  /\ \E x \in C : RatioGeq(ratio, x) /\ RatioGeq(x, ratio)
        /\ \A y \in C : RatioGeq(ratio, y)

\* neither the direct unit nor a neighbour of lo..hi is trusted
NothingTrusted(lo, hi) ==
    /\ ~(call.verse \in DOMAIN call.ref_rows
         /\ RatioGeq(RatioAt(call.verse), call.min_direct_ratio))
    /\ \A v \in DOMAIN call.ref_rows :
           (v # call.verse /\ lo <= v /\ v <= hi) =>
               ~(RatioGt(RatioAt(v), RatioAt(call.verse))
                 /\ RatioGeq(RatioAt(v), call.min_neighbor_ratio))

\* C19: when neither the direct unit nor a neighbour of the verses
\* max(1, verse - window)..verse + window is trusted, choose_reference
\* returns no reference, mode none and, as the confidence, the largest of
\* the direct ratio and the ratios of the existing units of those verses
\* (0 when there is no such unit); it returns mode none in no other case.
C19_UntrustedReportsBestRatio ==
    Chosen =>
        LET lo == Max(1, call.verse - call.neighbor_window)
            hi == call.verse + call.neighbor_window
        IN  /\ NothingTrusted(lo, hi) <=> ret.mode = "none"
            /\ ret.mode = "none" =>
                   /\ ret.ref = NoRow
                   /\ BestRatioOf(ret.ratio, lo, hi)

\* nothing is trusted, the direct unit exists and a neighbour inside the
\* window has a higher ratio, which is the confidence returned
C19_Witness ==
    /\ Chosen
    /\ ret.mode = "none"
    /\ ret.ref = NoRow
    /\ call.verse \in DOMAIN call.ref_rows
    /\ RatioGt(ret.ratio, RatioAt(call.verse))
    /\ \E v \in DOMAIN call.ref_rows :
           /\ v # call.verse
           /\ v >= 1
           /\ ret.ratio = RatioAt(v)

\* C19 as stated: the neighbours are the existing units of
\* [verse - window, verse + window].
C19_UntrustedReportsWindowBest ==
    Chosen =>
        LET lo == call.verse - call.neighbor_window
            hi == call.verse + call.neighbor_window
        IN  NothingTrusted(lo, hi) =>
                /\ ret.ref = NoRow
                /\ ret.mode = "none"
                /\ BestRatioOf(ret.ratio, lo, hi)

-----------------------------------------------------------------------------
(* The gaps that project_boundaries keeps                                  *)

\* the offset of the reference stream that the gap after word i maps to:
\* one past the image of the offset before the gap, else the image of the
\* offset after it, None when neither lies in a matching block
MappedOffset(s2, sr, i) ==
    LET blocks == get_matching_blocks(s2.stream, sr.stream)
        b == s2.boundaries[i]
        Holds(p) == {m \in blocks : m[1] <= p /\ p < m[1] + m[3]}
        Image(p) == LET m == CHOOSE x \in Holds(p) : TRUE IN m[2] + (p - m[1])
    IN  IF b >= 1 /\ Holds(b - 1) # {} THEN Image(b - 1) + 1
        ELSE IF b < Len(s2.stream) /\ Holds(b) # {} THEN Image(b)
        ELSE None

\* the gap after word i is kept in out: no word of out runs across it
GapKept(s2, out, i) ==
    \E w \in 1..Len(out.words) : out.boundaries[w] = s2.boundaries[i]

\* every mappable gap is kept exactly when its mapped offset is in ends
GapsFollow(ends) ==
    LET s2 == build_stream(call.tb2_text)
        sr == build_stream(call.ref_text)
        out == build_stream(ret)
    IN  (s2.stream # <<>> /\ sr.stream # <<>>) =>
            \A i \in 1..(Len(s2.words) - 1) :
                MappedOffset(s2, sr, i) # None =>
                    /\ KeepSpaceAfterWord(s2, sr)[i]
                           <=> MappedOffset(s2, sr, i) \in ends
                    /\ IsSpaceSeparatedWords(call.tb2_text) =>
                           (GapKept(s2, out, i)
                                <=> MappedOffset(s2, sr, i) \in ends)

\* the ends of the reference words, the last word left out or included
RefWordEnds(last) ==
    LET sr == build_stream(call.ref_text)
    IN  {sr.boundaries[k] : k \in 1..(Len(sr.boundaries) - (IF last THEN 0 ELSE 1))}

-----------------------------------------------------------------------------
(* The two tests of a merge                                                *)

\* the bonuses that group_score adds to the merged frequency
ImportBonus(tokens) ==
    500 * (Len(tokens) - 1)
    + 350 * Cardinality({i \in 1..Len(tokens) : Len(tokens[i]) <= 3})
    + (IF Lowered(tokens[1]) \in IMPORT_PREFIX_TOKENS THEN 850 ELSE 0)
    + (IF Lowered(tokens[Len(tokens)]) \in IMPORT_SUFFIX_TOKENS THEN 1000 ELSE 0)
    + (IF tokens[1][1] \in UpperLetters THEN 450 ELSE 0)

\* mergedScore + bonuses >= splitScore - epsilon, under the scoring of the call
ClearWin(tokens) ==
    IF call.fn = "merge_run"
    THEN merged_word_freq(Join(tokens), call.zipf) + ImportBonus(tokens)
             >= SumTokenFreqs(tokens, call.zipf) - 100
    ELSE token_score(Join(tokens), call.lexicon, call.zipf)
             + 800 * (Len(tokens) - 1)
             >= SumTokenScores(tokens, call.lexicon, call.zipf) - 200

\* mergedScore is at or above the confidence floor of the call's scoring
AboveFloor(tokens) ==
    IF call.fn = "merge_run"
    THEN merged_word_freq(Join(tokens), call.zipf) >= 1600
    ELSE token_score(Join(tokens), call.lexicon, call.zipf) >= 500

\* the offset of the run at which group j of a plan starts
PlanStart(plan, j) == SumLens(SubSeq(plan, 1, j - 1))

-----------------------------------------------------------------------------
(* Never-merge pairs                                                       *)

MaxPairRunLen == 3

\* tokens of the import script's runs: two never-merge words and two parts
\* of a biblical name
PairTokens == {<<"k","e">>, <<"p","a","d","a">>, <<"t","o">>, <<"b","i","t">>}

\* wordfreq absent, or a table in which "kepada" is frequent
PairZipfTables ==
    {NoZipf,
     [avail |-> TRUE, z |-> (<<"k","e","p","a","d","a">> :> 6000
                             @@ <<"k","e">> :> 6000 @@ <<"p","a","d","a">> :> 5000)]}

InitPairs ==
    /\ pc = "call"
    /\ call \in {[fn |-> "fallback_merge_words", words |-> w, lexicon |-> l,
                  zipf |-> z, max_group |-> g] :
                    w \in SeqsUpTo(FallbackTokens, MaxPairRunLen),
                    l \in Lexicons, z \in ZipfTables, g \in MaxGroups}
             \cup
                {[fn |-> "merge_run", words |-> w, zipf |-> z, max_group |-> g] :
                    w \in SeqsUpTo(PairTokens, MaxPairRunLen),
                    z \in PairZipfTables, g \in ImportMaxGroups}
    /\ ret = NoValue

SpecPairs == InitPairs /\ [][NextFallback]_vars

\* C21: every group of two or more tokens in the DP's output passes both
\* tests (mergedScore + bonuses >= splitScore - epsilon, and mergedScore at or
\* above the confidence floor); every group of two or more tokens that fails
\* one of them scores the rejection sentinel, which the DP skips.
C21_MergeOnlyOnClearWinAboveFloor ==
    (Merged /\ Len(call.words) >= 2) =>
        LET plan == CallPlan
            n == Len(call.words)
        IN  /\ \A j \in 1..Len(plan) :
                   plan[j] >= 2 =>
                       LET group == Slice(call.words, PlanStart(plan, j),
                                          PlanStart(plan, j) + plan[j])
                       IN  ClearWin(group) /\ AboveFloor(group)
            /\ \A i \in 0..(n - 2) :
                   \A k \in 2..Min(call.max_group, n - i) :
                       LET group == Slice(call.words, i, i + k)
                       IN  ~(ClearWin(group) /\ AboveFloor(group)) =>
                               /\ CallGroupScore(i, k)
                                      = (IF call.fn = "merge_run"
                                         THEN IMPORT_REJECTED ELSE REJECTED)
                               /\ CallRejects(CallGroupScore(i, k))

\* a run in which the DP merges one pair of tokens and keeps another pair
\* split that would be a clear win but lies below the floor
C21_Witness ==
    /\ Merged
    /\ Len(call.words) >= 3
    /\ \E j \in 1..Len(CallPlan) : CallPlan[j] >= 2
    /\ \E i \in 0..(Len(call.words) - 2) :
           LET group == Slice(call.words, i, i + 2)
           IN  /\ ClearWin(group)
               /\ ~AboveFloor(group)
               /\ CallRejects(CallGroupScore(i, 2))
               /\ \A j \in 1..Len(CallPlan) :
                      PlanStart(CallPlan, j) = i => CallPlan[j] = 1

\* the two tokens at offset i of the run start with a never-merge word
NeverMergePairAt(i) ==
    /\ i + 2 <= Len(call.words)
    /\ Lowered(call.words[i + 1])
           \in (IF call.fn = "merge_run" THEN IMPORT_DO_NOT_JOIN_TWO
                ELSE DO_NOT_JOIN_TWO)

\* the output has the word that merges exactly the two tokens at offset i
PairEmittedAt(i) ==
    \E j \in 1..Len(CallPlan) :
        PlanStart(CallPlan, j) = i /\ CallPlan[j] = 2

\* the merged word of the two tokens at offset i occurs in the lexicon of
\* the call (merge_run has no lexicon)
PairAttestedAt(i) ==
    /\ call.fn = "fallback_merge_words"
    /\ LexGet(call.lexicon, Lowered(Join(Slice(call.words, i, i + 2)))) > 0

\* C22 as stated: the output never has a word that merges exactly two
\* tokens of which the first is a never-merge word.
C22_NeverMergePairNeverEmitted ==
    (Merged /\ Len(call.words) >= 2) =>
        \A i \in 0..(Len(call.words) - 2) :
            NeverMergePairAt(i) => ~PairEmittedAt(i)

\* C22 amended: a two-token group whose first token is a never-merge word
\* is rejected, and never emitted as one word, unless the merged word occurs
\* in the reference lexicon (fallback_merge_words); merge_run rejects every
\* such group.
C22_NeverMergePairRejectedUnlessAttested ==
    (Merged /\ Len(call.words) >= 2) =>
        \A i \in 0..(Len(call.words) - 2) :
            (NeverMergePairAt(i) /\ ~PairAttestedAt(i)) =>
                /\ CallGroupScore(i, 2)
                       = (IF call.fn = "merge_run" THEN IMPORT_REJECTED
                          ELSE REJECTED)
                /\ CallRejects(CallGroupScore(i, 2))
                /\ ~PairEmittedAt(i)

\* "ke pada" stays split in merge_run although "kepada" is frequent enough
\* to pass both tests of a merge
C22_Witness ==
    /\ Merged
    /\ call.fn = "merge_run"
    /\ call.words = << <<"k","e">>, <<"p","a","d","a">> >>
    /\ ClearWin(call.words)
    /\ AboveFloor(call.words)
    /\ ret = <<"k","e"," ","p","a","d","a">>

-----------------------------------------------------------------------------
(* Ties of the segmentation DP                                             *)

MaxTieRunLen == 3

\* runs whose tokens merge both ways round: "di ri" and "ri di" with a
\* lexicon that may hold "diri" and "ridi", "to bit" and "bit to" with a
\* wordfreq table that may hold "bitto"
TieTokens == {<<"d","i">>, <<"r","i">>}
TieLexicons == [{<<"d","i","r","i">>, <<"r","i","d","i">>} -> {0, 9}]
ImportTieTokens == {<<"t","o">>, <<"b","i","t">>}
ImportTieZipfTables ==
    {NoZipf, [avail |-> TRUE, z |-> (<<"b","i","t","t","o">> :> 6000)]}

InitTies ==
    /\ pc = "call"
    /\ call \in {[fn |-> "fallback_merge_words", words |-> w, lexicon |-> l,
                  zipf |-> NoZipf, max_group |-> g] :
                    w \in SeqsUpTo(TieTokens, MaxTieRunLen),
                    l \in TieLexicons, g \in MaxGroups}
             \cup
                {[fn |-> "merge_run", words |-> w, zipf |-> z, max_group |-> g] :
                    w \in SeqsUpTo(ImportTieTokens, MaxTieRunLen),
                    z \in ImportTieZipfTables, g \in ImportMaxGroups}
    /\ ret = NoValue

SpecTies == InitTies /\ [][NextFallback]_vars

\* best_score and best_len of the call's DP once both loops have run
CallTable ==
    IF call.fn = "merge_run"
    THEN MergeRunFillTable(call.words, call.zipf, call.max_group,
             Len(call.words) - 1,
             [best_score |-> [j \in 0..Len(call.words) |->
                                 IF j = Len(call.words) THEN 0 ELSE -10000000],
              best_len |-> [j \in 0..(Len(call.words) - 1) |-> 1]])
    ELSE fallback_table(call.words, call.lexicon, call.zipf, call.max_group)

\* the group lengths the DP tries at offset i without skipping them
TriedAt(i) ==
    {k \in 1..Min(call.max_group, Len(call.words) - i) :
        ~CallRejects(CallGroupScore(i, k))}

\* the total of the group of k tokens at offset i and the best of what follows
TotalAt(tab, i, k) == CallGroupScore(i, k) + tab.best_score[i + k]

\* the lengths of TriedAt(i) whose total is the highest
BestAt(tab, i) ==
    {k \in TriedAt(i) : \A h \in TriedAt(i) : TotalAt(tab, i, k) >= TotalAt(tab, i, h)}

\* C23: at every start offset the DP records the smallest of the group
\* lengths that give the highest total, and the output is the partition read
\* off these records from offset 0.
C23_TiesTakeSmallestLength ==
    (Merged /\ Len(call.words) >= 2) =>
        LET tab == CallTable
        IN  /\ \A i \in 0..(Len(call.words) - 1) :
                   /\ BestAt(tab, i) # {}
                   /\ tab.best_len[i] \in BestAt(tab, i)
                   /\ \A k \in BestAt(tab, i) : tab.best_len[i] <= k
            /\ ReturnedPlan = ReadPlan(tab.best_len, 0, Len(call.words))

\* two group lengths tie for the highest total at the first offset and the
\* output starts with the shorter group
C23_Witness ==
    /\ Merged
    /\ Len(call.words) >= 2
    /\ Cardinality(BestAt(CallTable, 0)) >= 2
    /\ \A k \in BestAt(CallTable, 0) : ReturnedPlan[1] <= k

-----------------------------------------------------------------------------
(* Calls of the post-processing steps                                      *)

MaxStepTokens == 4

\* words of the phrase table, joined by single spaces
PhraseTokens == {<<"p","e","r">>, <<"s","e","m">>, <<"b","a","h">>, <<"a","n">>, <<"k","a","n">>}
PhraseTexts == {JoinWith(<<" ">>, w) : w \in SeqsUpTo(PhraseTokens, MaxStepTokens)}

\* a word, two suffixes and a comma, joined by single spaces
SuffixPieces == {<<"a">>, <<"n","y","a">>, <<"K","u">>, <<",">>}
SuffixTexts == {JoinWith(<<" ">>, w) : w \in SeqsUpTo(SuffixPieces, MaxStepTokens)}

\* lookups as build_tb1_lexicon makes them (the value without its hyphens
\* is the key, every part has three letters or more): none, "abc-defghi",
\* and "abc-defghi" with "def-ghi"
HyphenLookups ==
    {<<>>,
     (<<"a","b","c","d","e","f","g","h","i">> :> <<"a","b","c","-","d","e","f","g","h","i">>),
     (<<"a","b","c","d","e","f","g","h","i">> :> <<"a","b","c","-","d","e","f","g","h","i">>
      @@ <<"d","e","f","g","h","i">> :> <<"d","e","f","-","g","h","i">>)}
HyphenPieces == {<<"a","b","c","d","e","f","g","h","i">>, <<"A","b","c","d","e","f","g","h","i">>, <<"d","e","f","g","h">>, <<",">>}
HyphenTexts == {JoinWith(<<" ">>, w) : w \in SeqsUpTo(HyphenPieces, MaxStepTokens)}

\* texts of words, punctuation, hyphens and chapter:verse references
StepNoisePieces == {<<"a">>, <<" ">>, <<"-">>, <<".">>, <<",">>, <<"1",":","1">>}
StepNoiseTexts == {Join(ps) : ps \in SeqsUpTo(StepNoisePieces, MaxStepTokens)}

StepTrimTexts == SeqsUpTo({"a", ".", " "}, MaxStepTokens)

InitSteps ==
    /\ pc = "call"
    /\ call \in {[fn |-> "apply_static_safe_phrase_fixes", text |-> t] : t \in PhraseTexts}
             \cup {[fn |-> "apply_suffix_join", text |-> t] : t \in SuffixTexts}
             \cup {[fn |-> "restore_hyphen_forms", text |-> t, hyphen_lookup |-> h] :
                      t \in HyphenTexts, h \in HyphenLookups}
             \cup {[fn |-> "remove_cross_reference_noise", text |-> t] :
                      t \in StepNoiseTexts}
             \cup {[fn |-> "trim_low_confidence_tail", text |-> t,
                    reference_text |-> r] : t \in StepTrimTexts, r \in TrimRefs}
    /\ ret = NoValue

CallStaticFixes ==
    /\ pc = "call"
    /\ call.fn = "apply_static_safe_phrase_fixes"
    /\ ret' = apply_static_safe_phrase_fixes(call.text)
    /\ pc' = "return"
    /\ UNCHANGED call

CallSuffixJoin ==
    /\ pc = "call"
    /\ call.fn = "apply_suffix_join"
    /\ ret' = apply_suffix_join(call.text)
    /\ pc' = "return"
    /\ UNCHANGED call

CallRestoreHyphen ==
    /\ pc = "call"
    /\ call.fn = "restore_hyphen_forms"
    /\ ret' = restore_hyphen_forms(call.text, call.hyphen_lookup)
    /\ pc' = "return"
    /\ UNCHANGED call

NextSteps ==
    CallStaticFixes \/ CallSuffixJoin \/ CallRestoreHyphen \/ CallNoise \/ CallTrim

SpecSteps == InitSteps /\ [][NextSteps]_vars

StepDone ==
    /\ pc = "return"
    /\ call.fn \in {"apply_static_safe_phrase_fixes", "apply_suffix_join",
                    "restore_hyphen_forms", "remove_cross_reference_noise",
                    "trim_low_confidence_tail"}

\* the step of the call, with the call's other arguments, applied to a text
StepOn(text) ==
    CASE call.fn = "apply_static_safe_phrase_fixes" ->
             apply_static_safe_phrase_fixes(text)
      [] call.fn = "apply_suffix_join" -> apply_suffix_join(text)
      [] call.fn = "restore_hyphen_forms" ->
             restore_hyphen_forms(text, call.hyphen_lookup)
      [] call.fn = "remove_cross_reference_noise" ->
             remove_cross_reference_noise(text)
      [] call.fn = "trim_low_confidence_tail" ->
             trim_low_confidence_tail(text, call.reference_text)

\* C24 as stated: each step applied to its own result gives that result.
C24_StepsIdempotent == StepDone => StepOn(ret) = ret

\* the steps for which a second application changes nothing
C24_IdempotentSteps ==
    (StepDone /\ call.fn \in {"apply_static_safe_phrase_fixes", "apply_suffix_join",
                              "trim_low_confidence_tail"}) =>
        StepOn(ret) = ret

\* citation removal takes one hyphen of "a--." away each time it runs
C24_NoiseRemovalTwice ==
    ~(/\ StepDone
      /\ call.fn = "remove_cross_reference_noise"
      /\ call.text = <<"a","-","-",".">>
      /\ ret = <<"a","-",".">>
      /\ StepOn(ret) = <<"a",".">>)

\* hyphen restoration splits a part of a restored form when that part is
\* itself a key of the lookup
C24_HyphenRestorationTwice ==
    ~(/\ StepDone
      /\ call.fn = "restore_hyphen_forms"
      /\ call.text = <<"a","b","c","d","e","f","g","h","i">>
      /\ ret = <<"a","b","c","-","d","e","f","g","h","i">>
      /\ StepOn(ret) = <<"a","b","c","-","d","e","f","-","g","h","i">>)

-----------------------------------------------------------------------------
(* Steps with nothing to do                                                *)

\* no pattern of the phrase table matches anywhere in the text
NoPhraseMatch(text) ==
    \A k \in 1..Len(STATIC_SAFE_PHRASE_FIXES) :
        \A p \in 0..(Len(text) - 1) :
            ~(/\ WordStartsAt(text, p)
              /\ PartsEnd(text, p, STATIC_SAFE_PHRASE_FIXES[k].parts, 1) # None)

\* no word of the text is followed by whitespace and a suffix token
NoSuffixMatch(text) ==
    \A p \in 0..(Len(text) - 1) :
        LET n == RunAt(text, p, "letter")
            gap == RunAt(text, p + n, "space")
        IN  ~(/\ WordStartsAt(text, p) /\ n >= 1 /\ gap >= 1
              /\ SuffixEnd(text, p + n + gap) # None)

\* no letters-only token of five or more letters is a key of the lookup
NoLookupHit(text, hyphen_lookup) ==
    \A p \in 0..(Len(text) - 1) :
        LET n == RunAt(text, p, "letter")
        IN  ~(/\ WordStartsAt(text, p) /\ n >= 5
              /\ ~CharIs("word", At(text, p + n))
              /\ Lowered(Slice(text, p, p + n)) \in DOMAIN hyphen_lookup)

\* the text has no digit, hence no chapter:verse reference, no continuation
\* number and no citation-shaped run
NoCitationToken(text) == \A i \in 1..Len(text) : ~IsDigit(text[i])

\* the reference is empty, the letters of the text are within 1.35 times
\* the reference's letters, or no sentence-ending mark lies in the band
NoTrimNeeded ==
    \/ RefLettersOfCall = 0
    \/ 100 * TextLettersOfCall <= 135 * RefLettersOfCall
    \/ \A m \in MarksOfCall : ~InExactBand(m)

\* the step of the call has nothing to do
NothingToDo ==
    CASE call.fn = "apply_static_safe_phrase_fixes" -> NoPhraseMatch(call.text)
      [] call.fn = "apply_suffix_join" -> NoSuffixMatch(call.text)
      [] call.fn = "restore_hyphen_forms" ->
             NoLookupHit(call.text, call.hyphen_lookup)
      [] call.fn = "remove_cross_reference_noise" -> NoCitationToken(call.text)
      [] call.fn = "trim_low_confidence_tail" -> NoTrimNeeded

\* C25 as stated: a step that has nothing to do returns its input unchanged.
C25_StepsFailSoft == (StepDone /\ NothingToDo) => ret = call.text

\* the steps that return their input when they have nothing to do
C25_FailSoftSteps ==
    (StepDone /\ NothingToDo) =>
        CASE call.fn \in {"apply_static_safe_phrase_fixes", "apply_suffix_join",
                          "restore_hyphen_forms"} -> ret = call.text
          [] call.fn = "trim_low_confidence_tail" ->
                 (RefLettersOfCall = 0
                  \/ 100 * TextLettersOfCall <= 135 * RefLettersOfCall) =>
                     ret = Strip(call.text)
          [] OTHER -> TRUE

\* citation removal takes the final comma of a text without any citation
C25_TrailingCommaRemoved ==
    ~(/\ StepDone
      /\ call.fn = "remove_cross_reference_noise"
      /\ call.text = <<"a"," ","a",",">>
      /\ NothingToDo
      /\ ret = <<"a"," ","a">>)

-----------------------------------------------------------------------------
(* The order of the phrase table                                           *)

\* the text is the words of a pattern of the table, single spaces between
WholePattern(text, k) == text = JoinWith(<<" ">>, STATIC_SAFE_PHRASE_FIXES[k].parts)

\* C26 as stated: a phrase matched in full by a pattern of the table is
\* rewritten to the replacement of that pattern, even when a shorter pattern
\* of the table matches a part of it.
C26_LongestPatternFirst ==
    (StepDone /\ call.fn = "apply_static_safe_phrase_fixes") =>
        \A k \in 1..Len(STATIC_SAFE_PHRASE_FIXES) :
            WholePattern(call.text, k) =>
                ret = STATIC_SAFE_PHRASE_FIXES[k].replacement

\* "per sem bah an" becomes "per sembah an": the pattern "sem bah" stands in
\* front of "per sem bah an" in the table
C26_ShorterPatternWins ==
    ~(/\ StepDone
      /\ call.fn = "apply_static_safe_phrase_fixes"
      /\ call.text = <<"p","e","r"," ","s","e","m"," ","b","a","h"," ","a","n">>
      /\ ret = <<"p","e","r"," ","s","e","m","b","a","h"," ","a","n">>
      /\ NoPhraseMatch(ret))

-----------------------------------------------------------------------------
(* Calls of build_tb1_lexicon                                              *)

MaxLexTokens == 4

\* two spellings of "abcdefg" that the lookup counts, one with a part of two
\* letters, one with a capital, and a word with a hyphenated suffix
LexTokens ==
    {<<"a","b","c","-","d","e","f","g">>, <<"a","b","c","d","-","e","f","g">>,
     <<"A","b","c","-","D","e","f","g">>, <<"a","b","c","d","e","-","f","g">>,
     <<"a","b","c","d","-","n","y","a">>}

\* one reference row with the first tokens of the corpus in its text and
\* the others in its pericope
InitLexicon ==
    /\ pc = "call"
    /\ call \in UNION {{[fn |-> "build_tb1_lexicon", words |-> w,
                         tb1_rows |-> <<[text |-> JoinWith(<<" ">>, SubSeq(w, 1, k)),
                                         pericope |-> JoinWith(<<",", " ">>,
                                                          SubSeq(w, k + 1, Len(w)))]>>] :
                           k \in 0..Len(w)} : w \in SeqsUpTo(LexTokens, MaxLexTokens)}
    /\ ret = NoValue

CallBuildLexicon ==
    /\ pc = "call"
    /\ call.fn = "build_tb1_lexicon"
    /\ ret' = build_tb1_lexicon(call.tb1_rows)
    /\ pc' = "return"
    /\ UNCHANGED call

SpecLexicon == InitLexicon /\ [][CallBuildLexicon]_vars

LexiconBuilt == pc = "return" /\ call.fn = "build_tb1_lexicon"

\* the spellings of the corpus with a hyphen, case-folded
HyphenSpellings ==
    {s \in {Lowered(call.words[i]) : i \in 1..Len(call.words)} :
        \E j \in 1..Len(s) : s[j] = "-"}

\* the occurrences of a spelling in the corpus and the place of the first one
SpellingCount(s) ==
    Cardinality({i \in 1..Len(call.words) : Lowered(call.words[i]) = s})
SpellingFirst(s) ==
    CHOOSE i \in 1..Len(call.words) :
        /\ Lowered(call.words[i]) = s
        /\ \A j \in 1..(i - 1) : Lowered(call.words[j]) # s

JoinedForm(s) == SelectSeq(s, IsNotHyphen)

\* s is the most frequent of the spellings of its joined form in the set,
\* and the first seen of the most frequent ones
MostFrequentIn(s, spellings) ==
    /\ s \in spellings
    /\ \A o \in spellings :
           JoinedForm(o) = JoinedForm(s) =>
               \/ SpellingCount(s) > SpellingCount(o)
               \/ SpellingCount(s) = SpellingCount(o)
                  /\ SpellingFirst(s) <= SpellingFirst(o)

\* the lookup has exactly the joined forms of the spellings, each mapped to
\* its most frequent spelling
LookupOf(spellings) ==
    /\ DOMAIN ret.hyphen_lookup = {JoinedForm(s) : s \in spellings}
    /\ \A s \in spellings :
           MostFrequentIn(ret.hyphen_lookup[JoinedForm(s)], spellings)

\* C27 as stated: every joined form with a hyphenated spelling in the corpus
\* is mapped to its most frequent hyphenated spelling, the first seen among
\* equally frequent ones.
C27_LookupOfEveryHyphenSpelling == LexiconBuilt => LookupOf(HyphenSpellings)

\* the spellings the lookup learns from: letter parts between single
\* hyphens, each of three letters or more, none after the first a suffix
\* token
CountedSpellings ==
    {s \in HyphenSpellings :
        LET parts == SplitOn(s, "-", <<>>)
        IN  /\ \A i \in 1..Len(parts) :
                   Len(parts[i]) >= 3 /\ \A j \in 1..Len(parts[i]) : IsLetter(parts[i][j])
            /\ \A i \in 2..Len(parts) : parts[i] \notin SUFFIX_TOKENS}

\* C27 amended: every joined form with a hyphenated spelling whose parts
\* have three letters or more and none of whose parts after the first is a
\* suffix token is mapped to the most frequent of these spellings, the first
\* seen among equally frequent ones; other spellings are not counted and
\* give no entry.
C27_LookupOfCountedSpellings == LexiconBuilt => LookupOf(CountedSpellings)

\* two counted spellings occur once each and the lookup has the first seen,
\* while a spelling with a two-letter part occurs twice
C27_Witness ==
    /\ LexiconBuilt
    /\ call.words = <<<<"a","b","c","d","e","-","f","g">>, <<"a","b","c","d","e","-","f","g">>,
                      <<"a","b","c","d","-","e","f","g">>, <<"a","b","c","-","d","e","f","g">>>>
    /\ ret.hyphen_lookup[<<"a","b","c","d","e","f","g">>] = <<"a","b","c","d","-","e","f","g">>

-----------------------------------------------------------------------------
(* The letters of a repaired text                                          *)

\* calls of either repair path
InitRepair == InitProject \/ InitFallbackText

NextRepair == CallProject \/ CallFallbackText

SpecRepair == InitRepair /\ [][NextRepair]_vars

\* the corrupted text handed to the repair path of the call
RepairInput ==
    IF call.fn = "project_boundaries" THEN call.tb2_text ELSE call.text

\* C28: the case-folded letters-only stream of the output of
\* project_boundaries and of fallback_clean_text equals that of the input,
\* and the output has no more word tokens than the input.
C28_RepairKeepsLetters ==
    (Projected \/ Cleaned) =>
        /\ normalize_letters(ret) = normalize_letters(RepairInput)
        /\ Len(WordTokens(ret)) <= Len(WordTokens(RepairInput))

\* a projection that merges two words across a comma
C28_Witness ==
    /\ Projected
    /\ call.tb2_text = <<"a", ",", "b">>
    /\ Len(WordTokens(ret)) = 1
    /\ normalize_letters(ret) = <<"a", "b">>

-----------------------------------------------------------------------------
(* The result of choose_reference                                          *)

\* C29: the reference is absent exactly when the mode is none; mode same
\* comes with the unit at the requested verse and a confidence of at least
\* minDirectRatio; mode neighbor comes with a unit at most window verses
\* away, a confidence of at least minNeighborRatio that strictly exceeds the
\* direct ratio; the confidence lies in [0, 1].
C29_ResultConsistent ==
    Chosen =>
        /\ ret.mode \in {"same", "neighbor", "none"}
        /\ (ret.ref = NoRow) <=> (ret.mode = "none")
        /\ ret.mode = "same" =>
               /\ call.verse \in DOMAIN call.ref_rows
               /\ ret.ref = call.ref_rows[call.verse]
               /\ RatioGeq(ret.ratio, call.min_direct_ratio)
        /\ ret.mode = "neighbor" =>
               /\ \E v \in DOMAIN call.ref_rows : ret.ref = call.ref_rows[v]
               /\ ret.ref.verse # call.verse
               /\ Abs(ret.ref.verse - call.verse) <= call.neighbor_window
               /\ RatioGeq(ret.ratio, call.min_neighbor_ratio)
               /\ RatioGt(ret.ratio, RatioAt(call.verse))
        /\ ret.ratio[2] > 0
        /\ 0 <= ret.ratio[1]
        /\ ret.ratio[1] <= ret.ratio[2]

\* a neighbour is returned over a direct unit that shares letters with the
\* text, and another neighbour of the window is only as similar as the
\* direct unit
C29_Witness ==
    /\ Chosen
    /\ ret.mode = "neighbor"
    /\ call.verse \in DOMAIN call.ref_rows
    /\ RatioAt(call.verse)[1] > 0
    /\ \E v \in DOMAIN call.ref_rows :
           /\ v # call.verse
           /\ Abs(v - call.verse) <= call.neighbor_window
           /\ RatioAt(v) = RatioAt(call.verse)

-----------------------------------------------------------------------------
(* The counters of a run                                                   *)

\* C30: after every prefix of the input rows each processed row is counted
\* under exactly one path, so rows_total is the sum of the three path
\* counters; low_confidence_rows is at most rows_fallback, rows_changed at
\* most rows_total, and the output has rows_total rows.
C30_CountersConsistent ==
    MainRunning =>
        /\ ret.stats.rows_total
               = ret.stats.rows_alignment_same_verse
                 + ret.stats.rows_alignment_neighbor
                 + ret.stats.rows_fallback
        /\ ret.stats.low_confidence_rows <= ret.stats.rows_fallback
        /\ ret.stats.rows_changed <= ret.stats.rows_total
        /\ Len(ret.output_rows) = ret.stats.rows_total
        /\ ret.stats.rows_total <= Len(call.tb2_rows)

\* one of two rows has been processed, by a neighbour alignment that
\* changed it
C30_Witness ==
    /\ MainRunning
    /\ pc = "rows"
    /\ Len(call.tb2_rows) = 2
    /\ ret.stats.rows_total = 1
    /\ ret.stats.rows_alignment_neighbor = 1
    /\ ret.stats.rows_changed = 1

\* a row went to the fallback with a confidence at or above
\* min_neighbor_ratio, so it is not a low-confidence row
C30_WitnessConfidentFallback ==
    /\ MainRunning
    /\ ret.stats.low_confidence_rows < ret.stats.rows_fallback

\* both rows of a run have been processed, one aligned at its own verse and
\* one by the fallback with a low confidence
C30_WitnessWholeRun ==
    /\ pc = "return"
    /\ ret.stats.rows_total = 2
    /\ ret.stats.rows_alignment_same_verse = 1
    /\ ret.stats.rows_fallback = 1
    /\ ret.stats.low_confidence_rows = 1

====
